---------------------------- MODULE Spec2Model ----------------------------
(***************************************************************************)
(* A model of iterm-mcp: the three tool handlers of src/src/index.ts       *)
(* (write_to_terminal, read_terminal_output, send_control_character) and   *)
(* the classes they drive: CommandExecutor (second, tab-aware revision,    *)
(* src/src/CommandExecutor.ts lines 343-686), TtyOutputReader (the         *)
(* revision with filterBase64Content, src/unnamed/part_004) and            *)
(* SendControlCharacter (src/unnamed/part_002).                            *)
(*                                                                         *)
(* Text is a sequence of UTF-16 code units (naturals), so that trim,       *)
(* split, the regular expressions and the escapes are computed, not        *)
(* assumed.  CPU percentages are in tenths of a percent (5 = 0.5%).        *)
(* The automation bridge (osascript) and the process table are the         *)
(* environment: every call to them draws its answer from the set the       *)
(* current world allows.                                                   *)
(***************************************************************************)
EXTENDS Integers, Sequences, FiniteSets, TLC

\* ------------------------------------------------------------- bounds
\* Busy-flag polls one call may make before the model stops following it.
MaxBusyPolls == 2
\* Process probes one detector run may make before the model stops following it.
MaxProbes == 6

\* ------------------------------------------------- program constants
\* activeProcess.metrics.totalCPUPercent < 1, in tenths of a percent
CpuThreshold == 10
\* belowThresholdTime += 350 ; await sleep(350)
ProbeInterval == 350
\* if (belowThresholdTime >= 1000) return true
DebounceWindow == 1000
\* /[A-Za-z0-9+/]{100,}={0,2}/g
Base64MinRun == 100
\* ={0,2}
Base64MaxPad == 2
\* Number(linesOfOutput) || 25
DefaultLinesOfOutput == 25

\* --------------------------------------------------------------- text
Max(a, b) == IF a >= b THEN a ELSE b

Min(a, b) == IF a <= b THEN a ELSE b

\* "\n"
NL == 10

\* ":"
Colon == 58

\* "="
EqualsSign == 61

\* String.prototype.trim strips these (the ASCII part of JS white space)
IsWhiteSpace(ch) == ch \in {9, 10, 11, 12, 13, 32}

RECURSIVE TrimStart(_)
TrimStart(s) ==
  IF s = <<>> THEN <<>>
  ELSE IF IsWhiteSpace(Head(s)) THEN TrimStart(Tail(s)) ELSE s

RECURSIVE TrimEnd(_)
TrimEnd(s) ==
  IF s = <<>> THEN <<>>
  ELSE IF IsWhiteSpace(s[Len(s)]) THEN TrimEnd(SubSeq(s, 1, Len(s) - 1)) ELSE s

\* finalContent.trim()
Trim(s) == TrimEnd(TrimStart(s))

\* buffer.split("\n").length
LineCount(s) == Cardinality({i \in 1..Len(s) : s[i] = NL}) + 1

\* [A-Za-z0-9+/]
IsBase64Char(ch) ==
  \/ ch \in 65..90
  \/ ch \in 97..122
  \/ ch \in 48..57
  \/ ch = 43
  \/ ch = 47

\* The number of positions from i on before the first one in stops (to the
\* end of s when there is none): what a greedy repetition of a character
\* class consumes, stops being the positions whose character is outside it.
RunUntil(s, i, stops) ==
  LET later == {j \in stops : j >= i} IN
  IF later = {} THEN Max(0, Len(s) - i + 1)
  ELSE (CHOOSE j \in later : \A k \in later : j <= k) - i

\* [A-Za-z0-9+/]* from position i
RunOfBase64(s, i) == RunUntil(s, i, {j \in 1..Len(s) : ~IsBase64Char(s[j])})

\* The characters from position i up to the next one of the alphabet.
RunOfNonBase64(s, i) == RunUntil(s, i, {j \in 1..Len(s) : IsBase64Char(s[j])})

\* =* from position i
RunOfEquals(s, i) == RunUntil(s, i, {j \in 1..Len(s) : s[j] # EqualsSign})

\* [^:]* from position i
RunOfNonColon(s, i) == RunUntil(s, i, {j \in 1..Len(s) : s[j] = Colon})

\* [^\n]* from position i
RunOfNonNewline(s, i) == RunUntil(s, i, {j \in 1..Len(s) : s[j] = NL})

\* '[BASE64_IMAGE_CONTENT_FILTERED]'
Base64Placeholder ==
  <<91, 66, 65, 83, 69, 54, 52, 95, 73, 77, 65, 71, 69, 95, 67, 79, 78, 84, 69,
    78, 84, 95, 70, 73, 76, 84, 69, 82, 69, 68, 93>>

\* '[IMGCAT_PREFIX_FILTERED]\n'
ImgcatPlaceholder ==
  <<91, 73, 77, 71, 67, 65, 84, 95, 80, 82, 69, 70, 73, 88, 95, 70, 73, 76, 84,
    69, 82, 69, 68, 93, 10>>

\* \x1b\]1337;File=
ImgcatPrefix == <<27, 93, 49, 51, 51, 55, 59, 70, 105, 108, 101, 61>>

\* Faulty variant of ReplaceBase64: the padding after a run is left in place.
RECURSIVE ReplaceBase64KeepsPadding(_, _)
ReplaceBase64KeepsPadding(s, i) ==
  IF i > Len(s) THEN <<>>
  ELSE LET run == RunOfBase64(s, i) IN
       IF run = 0
       THEN LET skip == RunOfNonBase64(s, i) IN
            SubSeq(s, i, i + skip - 1) \o ReplaceBase64KeepsPadding(s, i + skip)
       ELSE IF run < Base64MinRun
            THEN SubSeq(s, i, i + run - 1) \o ReplaceBase64KeepsPadding(s, i + run)
            ELSE Base64Placeholder \o ReplaceBase64KeepsPadding(s, i + run)

\* content.replace(base64Pattern, placeholder), scanning from position i:
\* a run of fewer than 100 alphabet characters matches nowhere inside itself and
\* is copied; a longer one is replaced together with up to two '=' after it.
RECURSIVE ReplaceBase64(_, _)
ReplaceBase64(s, i) ==
  IF i > Len(s) THEN <<>>
  ELSE LET run == RunOfBase64(s, i) IN
       IF run = 0
       THEN LET skip == RunOfNonBase64(s, i) IN
            SubSeq(s, i, i + skip - 1) \o ReplaceBase64(s, i + skip)
       ELSE IF run < Base64MinRun
            THEN SubSeq(s, i, i + run - 1) \o ReplaceBase64(s, i + run)
            ELSE LET pad == Min(Base64MaxPad, RunOfEquals(s, i + run)) IN
                 Base64Placeholder \o ReplaceBase64(s, i + run + pad)

HasPrefixAt(s, i, p) ==
  /\ i + Len(p) - 1 <= Len(s)
  /\ SubSeq(s, i, i + Len(p) - 1) = p

\* Where a match of /\x1b\]1337;File=([^:]+)(:[^\n]+)?\n/ that starts at i ends
\* (the index of its closing "\n"), or 0 when there is none.  q is the first
\* index after the prefix and m what ([^:]+) consumes greedily.  With the whole
\* of m taken, the next character is ":" or the end, so the match needs the
\* optional group and a "\n" after it; otherwise ([^:]+) backtracks to the last
\* "\n" inside its own run, which then closes the match.
ImgcatMatchEnd(s, i) ==
  IF ~HasPrefixAt(s, i, ImgcatPrefix) THEN 0
  ELSE LET q == i + Len(ImgcatPrefix)
           m == RunOfNonColon(s, q)
           k == RunOfNonNewline(s, q + m + 1)
           inner == {j \in (q + 1)..(q + m - 1) : s[j] = NL}
       IN  IF m = 0 THEN 0
           ELSE IF q + m <= Len(s) /\ k >= 1 /\ q + m + 1 + k <= Len(s)
                THEN q + m + 1 + k
                ELSE IF inner # {} THEN CHOOSE j \in inner : \A j2 \in inner : j2 <= j
                     ELSE 0

\* filteredContent.replace(imgcatPrefixPattern, '[IMGCAT_PREFIX_FILTERED]\n')
RECURSIVE ReplaceImgcat(_, _)
ReplaceImgcat(s, i) ==
  LET starts == {j \in i..Len(s) : ImgcatMatchEnd(s, j) # 0} IN
  IF starts = {} THEN SubSeq(s, i, Len(s))
  ELSE LET j == CHOOSE j \in starts : \A k \in starts : j <= k IN
       SubSeq(s, i, j - 1) \o ImgcatPlaceholder
       \o ReplaceImgcat(s, ImgcatMatchEnd(s, j) + 1)

\* TtyOutputReader.filterBase64Content
filterBase64Content(content) == ReplaceImgcat(ReplaceBase64(content, 1), 1)

\* ------------------------------------------------- sessions and bridge
\* Bound on the number of sessions the host application has open at one call.
MaxSessions == 2

\* "/dev/ttys001"
DevTtys001 == <<47, 100, 101, 118, 47, 116, 116, 121, 115, 48, 48, 49>>

\* "/dev/ttys002"
DevTtys002 == <<47, 100, 101, 118, 47, 116, 116, 121, 115, 48, 48, 50>>

\* No ttyPath argument (undefined); the empty string is falsy in the same way.
NoTty == <<>>

\* "/dev/ttys0010": a device path that "/dev/ttys001" is a proper prefix of
DevTtys0010 == DevTtys001 \o <<48>>

\* The device paths sessions may have.
TtyPaths == {DevTtys001, DevTtys002, DevTtys0010}

\* Faulty variant of HandlerTtyPath: the argument is ignored.
HandlerTtyPathFixed(ttyArg) == DevTtys001

\* request.params.arguments?.ttyPath ? String(...) : "/dev/ttys001"
HandlerTtyPath(ttyArg) == IF ttyArg # NoTty THEN ttyArg ELSE DevTtys001

\* The handler as the repository also holds it:
\* request.params.arguments?.ttyPath ? String(...) : undefined
HandlerTtyPathUndefined(ttyArg) == ttyArg

\* this.targetTtyPath = targetTtyPath || null   (null is NoTty)
ConstructorTarget(ttyPath) == IF ttyPath # NoTty THEN ttyPath ELSE NoTty

\* One open session as the bridge sees it during one script run: its device
\* path, whether reading "tty of aSession" raises, and whether the action told
\* to it raises.
SessionStates == [tty : TtyPaths, inspectErr : BOOLEAN, actErr : BOOLEAN]

RECURSIVE SeqsUpTo(_, _)
SeqsUpTo(S, n) ==
  IF n = 0 THEN {<<>>}
  ELSE LET shorter == SeqsUpTo(S, n - 1) IN
       shorter \cup {Append(q, x) : q \in {r \in shorter : Len(r) = n - 1}, x \in S}

\* The host application at the instant of one osascript run: whether it is
\* running, whether the run fails for another reason (permissions, timeout),
\* its sessions in window, tab, session order, and the focused one.
AllBridgeEnvs ==
  {e \in [running : BOOLEAN, fails : BOOLEAN,
          sessions : SeqsUpTo(SessionStates, MaxSessions), focus : 1..MaxSessions] :
     e.focus <= Max(1, Len(e.sessions))}

\* The one healthy host: running, one session on each known path, no error.
HealthyEnv ==
  [running |-> TRUE, fails |-> FALSE, focus |-> 1,
   sessions |-> <<[tty |-> DevTtys001, inspectErr |-> FALSE, actErr |-> FALSE],
                  [tty |-> DevTtys002, inspectErr |-> FALSE, actErr |-> FALSE]>>]

\* Faulty variant of TtyIsEqual: a path that begins with the target matches.
TtyBeginsWith(sessionTty, targetTTY) ==
  /\ Len(targetTTY) <= Len(sessionTty)
  /\ SubSeq(sessionTty, 1, Len(targetTTY)) = targetTTY

\* "if sessionTty is equal to targetTTY"
TtyIsEqual(sessionTty, targetTTY) == sessionTty = targetTTY

\* Faulty variant of TargetedHit: an error raised while a session is inspected
\* ends the search.
TargetedHitUntilError(sessions, targetTTY) ==
  LET hits == {i \in 1..Len(sessions) :
                 /\ \A j \in 1..i : ~sessions[j].inspectErr
                 /\ TtyIsEqual(sessions[i].tty, targetTTY)
                 /\ ~sessions[i].actErr}
  IN  IF hits = {} THEN 0 ELSE CHOOSE i \in hits : \A j \in hits : i <= j

\* The repeat loops of the targeted scripts: the sessions in order, each inside
\* try ... on error (ignored): the first session whose tty can be read, equals
\* the target and takes the action without raising; 0 when the loops run out.
TargetedHit(sessions, targetTTY) ==
  LET hits == {i \in 1..Len(sessions) :
                 /\ ~sessions[i].inspectErr
                 /\ TtyIsEqual(sessions[i].tty, targetTTY)
                 /\ ~sessions[i].actErr}
  IN  IF hits = {} THEN 0 ELSE CHOOSE i \in hits : \A j \in hits : i <= j

\* Whether some open session has exactly the requested device path.
HasSessionWithTty(sessions, targetTTY) ==
  \E i \in 1..Len(sessions) : sessions[i].tty = targetTTY

\* What one osascript run does, for a script that targets `target` (NoTty: the
\* "current session of current window" form): status ok (the action ran on the
\* session with path hit), notFound (foundSession stayed false), notRunning or
\* failed (osascript exits non-zero before or outside the loops).
BridgeOutcome(env, target) ==
  IF ~env.running
  THEN [status |-> "notRunning", matched |-> FALSE, hit |-> NoTty, index |-> 0]
  ELSE IF env.fails
  THEN [status |-> "failed", matched |-> FALSE, hit |-> NoTty, index |-> 0]
  ELSE IF target = NoTty
  THEN IF env.sessions = <<>> \/ env.sessions[env.focus].actErr
       THEN [status |-> "failed", matched |-> FALSE, hit |-> NoTty, index |-> 0]
       ELSE [status |-> "ok", matched |-> TRUE, hit |-> env.sessions[env.focus].tty,
             index |-> env.focus]
  ELSE LET h == TargetedHit(env.sessions, target) IN
       IF h = 0
       THEN [status |-> "notFound",
             matched |-> HasSessionWithTty(env.sessions, target), hit |-> NoTty,
             index |-> 0]
       ELSE [status |-> "ok", matched |-> TRUE, hit |-> env.sessions[h].tty,
             index |-> h]

\* ---------------------------------------------------------------- worlds
\* The environment class of a run.  "bridge": every host state, session list
\* and bridge failure, drawn anew at each bridge call, a few buffers, a quiet
\* process table.  "detector": a healthy host and every process-table answer.
\* "resolver": a running host whose session list, with the sessions that
\* raise, is drawn when the call arrives and stays as it is during the call.
\* "apart" and "shared": a healthy host whose sessions keep their contents
\* from one bridge call to the next, and two calls in flight, on different
\* sessions ("apart") or on the same one ("shared").
\* "encoder": a healthy, quiet host and every short text as the command.
\* "filter": a healthy host whose session shows text with base64-like runs
\* of many lengths, inline-image sequences and many lines, read by
\* read_terminal_output.
\* "progress": a healthy host whose busy flag and process table give every
\* answer.
\* "focus": a healthy, quiet host whose focus is on either session at each
\* bridge call, and the handler that passes a missing ttyPath on as undefined.
\* "growth": a healthy, quiet host whose session shows, at each snapshot, a
\* buffer that is empty or has blank lines at either end, with up to two
\* lines after it.
Worlds ==
  {"bridge", "detector", "resolver", "apart", "shared", "encoder", "filter", "progress",
   "focus", "growth"}

\* The worlds whose host is healthy and quiet: no process on the device path,
\* which can be opened.
Quiet(w) == w \in {"resolver", "apart", "shared", "encoder", "filter", "focus", "growth"}

\* The worlds in which the sessions' contents are state.
Stateful(w) == w \in {"apart", "shared"}

\* The healthy host with the focus on its session f.
FocusedOn(f) == [HealthyEnv EXCEPT !.focus = f]

BridgeEnvs(w) ==
  IF w = "bridge" THEN AllBridgeEnvs
  ELSE IF w = "focus" THEN {FocusedOn(f) : f \in 1..Len(HealthyEnv.sessions)}
  ELSE {HealthyEnv}

\* const ttyPath = ... of the handler a world runs.
TtyPathOf(w, ttyArg) ==
  IF w = "focus" THEN HandlerTtyPathUndefined(ttyArg) ELSE HandlerTtyPath(ttyArg)

\* The hosts of the "resolver" world.
ResolverEnvs == {e \in AllBridgeEnvs : e.running /\ ~e.fails /\ e.focus = 1}

\* The hosts a call may find when it arrives (kept in the call only in the
\* "resolver" world).
CallEnvs(w) == IF w = "resolver" THEN ResolverEnvs ELSE {HealthyEnv}

Targets == TtyPaths \cup {NoTty}

\* Where the "bridge" world draws the host anew at each call, which session
\* of the list took the action is not kept.
WithoutIndex(o) == [o EXCEPT !.index = 0]

\* The outcomes one bridge call can have when the host is drawn at the call,
\* by world and target.
OutcomeTable ==
  [w \in Worlds |->
     [t \in Targets |-> {WithoutIndex(BridgeOutcome(e, t)) : e \in BridgeEnvs(w)}]]

\* The outcomes one bridge call of a call that found the host env can have.
BridgeOutcomes(w, env, target) ==
  IF w = "resolver" THEN {BridgeOutcome(env, target)}
  ELSE IF w = "bridge" THEN OutcomeTable[w][target]
  ELSE {WithoutIndex(BridgeOutcome(e, target)) : e \in BridgeEnvs(w)}

\* Session contents ("contents" of a session) the host may return.
\* "$ "
BufPrompt == <<36, 32>>

\* "$ ls\nout\n$ "
BufTwoLines == <<36, 32, 108, 115, 10, 111, 117, 116, 10, 36, 32>>

\* "\n$ ls\no1\no2\n$ \n": blank lines at both ends
BufPadded == <<10, 36, 32, 108, 115, 10, 111, 49, 10, 111, 50, 10, 36, 32, 10>>

\* "\x1b]1337;File=a\nb\nc": an inline-image prefix whose name runs over a line break
BufImgcat == ImgcatPrefix \o <<97, 10, 98, 10, 99>>

\* The i-th character of a base64-like run: "A", "z", "9", "+", "/" in turn.
BaseChar(i) == <<65, 122, 57, 43, 47>>[(i % 5) + 1]

\* A run of n base64-alphabet characters.
Run(n) == [i \in 1..n |-> BaseChar(i)]

\* n padding characters "=".
Pad(n) == [i \in 1..n |-> EqualsSign]

\* The lengths of the runs the "filter" world shows: none, one character, one
\* less than the pattern asks for, exactly that, one more, and 150.
RunLengths ==
  {0, 1, Base64MinRun - 1, Base64MinRun, Base64MinRun + 1, Base64MinRun + 50}

\* What stands before a run: nothing, "x ", "a-", "b" (which lengthens the run).
BeforeRun == {<<>>, <<120, 32>>, <<97, 45>>, <<98>>}

\* What stands after a run and its padding: nothing, " y", "\nz", "c".
AfterRun == {<<>>, <<32, 121>>, <<10, 122>>, <<99>>}

\* One run with its surroundings, and two runs with "." between them.
RunBuffers ==
  {pre \o Run(n) \o Pad(p) \o post :
     pre \in BeforeRun, n \in RunLengths, p \in 0..(Base64MaxPad + 1), post \in AfterRun}
  \cup
  {Run(n) \o Pad(p) \o <<46>> \o Run(m) :
     n \in RunLengths, m \in RunLengths, p \in {0, Base64MaxPad}}

\* "\x1b]1337;File=a:" + a run of 100 + "\nz": an inline image as it is shown
BufInlineImage == ImgcatPrefix \o <<97, Colon>> \o Run(Base64MinRun) \o <<10, 122>>

\* The decimal digits of n < 100 ("7", "42").
Digits(n) == IF n < 10 THEN <<48 + n>> ELSE <<48 + (n \div 10), 48 + (n % 10)>>

\* n numbered lines: "1\n2\n...\nn".
RECURSIVE NumberedLines(_)
NumberedLines(n) ==
  IF n = 1 THEN Digits(1) ELSE NumberedLines(n - 1) \o <<NL>> \o Digits(n)

\* Buffers of 1, 3, 4, 26, 27 and 28 lines: around linesOfOutput + 1 for the
\* values asked for and for the default.
LineBuffers ==
  {NumberedLines(n) : n \in {1, 3, 4, DefaultLinesOfOutput + 1,
                              DefaultLinesOfOutput + 2, DefaultLinesOfOutput + 3}}

\* The session's text with one more line after it; the first line of an empty
\* session is the text itself.
AppendLine(contents, line) ==
  IF contents = <<>> THEN line ELSE contents \o <<NL>> \o line

RECURSIVE AppendLines(_, _)
AppendLines(contents, lines) ==
  IF lines = <<>> THEN contents
  ELSE AppendLines(AppendLine(contents, Head(lines)), Tail(lines))

\* What the session shows before anything is added: nothing, "0", "0" and a
\* blank line, a blank line and "0", "0" and two blank lines.
GrowthStarts == {<<>>, <<48>>, <<48, NL>>, <<NL, 48>>, <<48, NL, NL>>}

\* The lines added: none, "1", "1" twice, "1" and a blank line.
GrowthLines == {<<>>, << <<49>> >>, << <<49>>, <<49>> >>, << <<49>>, <<>> >>}

GrowthBuffers == {AppendLines(b, t) : b \in GrowthStarts, t \in GrowthLines}

Buffers(w) ==
  IF w = "bridge" THEN {BufPrompt, BufTwoLines, BufPadded, BufImgcat}
  ELSE IF w = "growth" THEN GrowthBuffers
  ELSE IF w = "resolver" THEN {BufPrompt}
  ELSE IF w = "filter" THEN RunBuffers \cup LineBuffers \cup {BufInlineImage, BufImgcat}
  ELSE {BufTwoLines}

\* Lines a session's contents may grow to.
MaxBufferLines == 4

\* The sessions whose contents are state: those of the healthy host.
HostTtys == {DevTtys001, DevTtys002}

\* "0": the contents of a session nothing has been written to.
BufUntouched == <<48>>

\* The line the session shows for text written by call c, or printed by the
\* command that text started: the digit of c.
LineOf(c) == <<48 + c>>

\* The contents of a session after one more line.
WithLine(contents, line) == contents \o <<NL>> \o line

\* The call whose text the session received last (0: none): the one named by
\* the last line.
LastWriter(contents) == contents[Len(contents)] - 48

\* What "contents" of the session acted on returns: the session's contents
\* where they are state, any of the world's buffers elsewhere.
Contents(w, h, o) ==
  IF Stateful(w) THEN (IF o.status = "ok" THEN {h[o.hit]} ELSE {BufUntouched})
  ELSE Buffers(w)

\* Answers of "is processing".
BusyAnswers(w) == IF w \in {"bridge", "progress"} THEN BOOLEAN ELSE {FALSE}

\* Whether openSync(ttyPath, 'r') succeeds.
OpenAnswers(w) == IF Stateful(w) \/ w \in {"encoder", "filter"} THEN {TRUE} ELSE BOOLEAN

\* CPU samples in tenths of a percent: 0.5%, exactly 1%, 5%.
CpuSamples == {5, 10, 50}

\* tracker.getActiveProcess(ttyPath): a process with its CPU, none, or a throw.
NoProcess == [kind |-> "none", cpu |-> 0]

ProbeThrows == [kind |-> "throws", cpu |-> 0]

ActiveProcess(cpu) == [kind |-> "process", cpu |-> cpu]

ProbeAnswers(w) ==
  IF w = "bridge" THEN {NoProcess, ProbeThrows, ActiveProcess(5)}
  ELSE IF Quiet(w) THEN {NoProcess}
  ELSE IF w = "progress"
  THEN {NoProcess, ProbeThrows, ActiveProcess(5), ActiveProcess(50)}
  ELSE {NoProcess, ProbeThrows} \cup {ActiveProcess(c) : c \in CpuSamples}

\* --------------------------------------------------------------- errors
\* An Error's message, kept as what the code looks at: the "Failed to ..."
\* prefixes put in front of it (outermost first), the phrases includes() is
\* asked about, what osascript reported, the path a not-found report names,
\* and whether the "might not be running" hint was added.
NoError ==
  [ctx |-> <<>>, phrases |-> {}, stderr |-> "none", path |-> NoTty, hint |-> FALSE]

\* The phrase osascript prints when the host is not running (typographic
\* apostrophe, written here as [U+2019]).
NotRunningPhrase == "Application isn[U+2019]t running"

\* The phrase the catch blocks look for: "Application isn\\'t running", a
\* backslash and an ASCII apostrophe.
NotRunningProbe == "Application isn\\'t running"

SessionPhrase == "Session with TTY"

\* The rejection of execPromise(`osascript -e '<script>'`): child_process puts
\* the command line in the message ("Command failed: <cmd>\n<stderr>"), and a
\* targeted script holds the literal "Session with TTY " itself.
ExecError(target, o) ==
  [ctx |-> <<>>,
   phrases |-> (IF target # NoTty \/ o.status = "notFound" THEN {SessionPhrase} ELSE {})
               \cup (IF o.status = "notRunning" THEN {NotRunningPhrase} ELSE {}),
   stderr |-> o.status,
   path |-> IF o.status = "notFound" THEN target ELSE NoTty,
   hint |-> FALSE]

\* The catch blocks: `Failed to <what>: ...`, with the hint when the message
\* has no "Session with TTY" and has the not-running phrase looked for.
Wrap(what, e) ==
  [e EXCEPT !.ctx = <<what>> \o @,
            !.hint = @ \/ (SessionPhrase \notin e.phrases /\ NotRunningProbe \in e.phrases)]

\* "Session with TTY " & targetTTY & " not found"
NotFoundText(targetTTY) ==
  <<83, 101, 115, 115, 105, 111, 110, 32, 119, 105, 116, 104, 32, 84, 84, 89, 32>>
  \o targetTTY \o <<32, 110, 111, 116, 32, 102, 111, 117, 110, 100>>

\* TtyOutputReader.retrieveBuffer(ttyPath) for one bridge outcome o and the
\* session contents the host holds: the targeted script returns the not-found
\* text instead of raising, so only a failing osascript run rejects.
retrieveBuffer(ttyPath, o, contents) ==
  IF o.status = "ok"
  THEN [ok |-> TRUE, text |-> Trim(contents), error |-> NoError]
  ELSE IF o.status = "notFound"
  THEN [ok |-> TRUE, text |-> Trim(NotFoundText(ttyPath)), error |-> NoError]
  ELSE [ok |-> FALSE, text |-> <<>>,
        error |-> Wrap("Failed to retrieve buffer", ExecError(ttyPath, o))]

\* -------------------------------------------------------------- encoder
\* str.replace(/<ch>/g, repl)
RECURSIVE ReplaceChar(_, _, _)
ReplaceChar(s, ch, repl) ==
  IF s = <<>> THEN <<>>
  ELSE (IF Head(s) = ch THEN repl ELSE <<Head(s)>>) \o ReplaceChar(Tail(s), ch, repl)

\* One hexadecimal digit, lower case.
HexDigit(d) == IF d < 10 THEN 48 + d ELSE 87 + d

\* Faulty variant of UnicodeEscape: the digits are not padded to four.
UnicodeEscapeUnpadded(ch) ==
  <<92, 117>>
  \o (IF ch >= 4096 THEN <<HexDigit((ch \div 4096) % 16)>> ELSE <<>>)
  \o (IF ch >= 256 THEN <<HexDigit((ch \div 256) % 16)>> ELSE <<>>)
  \o (IF ch >= 16 THEN <<HexDigit((ch \div 16) % 16)>> ELSE <<>>)
  \o <<HexDigit(ch % 16)>>

\* '\\u' + char.charCodeAt(0).toString(16).padStart(4, '0')
UnicodeEscape(ch) ==
  <<92, 117, HexDigit((ch \div 4096) % 16), HexDigit((ch \div 256) % 16),
    HexDigit((ch \div 16) % 16), HexDigit(ch % 16)>>

\* Faulty variant of EscapeNonPrintable: nothing is replaced.
EscapeNonPrintableKept(s) == s

\* str.replace(/[^\x20-\x7E]/g, ...)
RECURSIVE EscapeNonPrintable(_)
EscapeNonPrintable(s) ==
  IF s = <<>> THEN <<>>
  ELSE (IF Head(s) \in 32..126 THEN <<Head(s)>> ELSE UnicodeEscape(Head(s)))
       \o EscapeNonPrintable(Tail(s))

\* str.split('\n')
RECURSIVE Split(_)
Split(s) ==
  LET n == RunOfNonNewline(s, 1) IN
  IF n = Len(s) THEN <<s>>
  ELSE <<SubSeq(s, 1, n)>> \o Split(SubSeq(s, n + 2, Len(s)))

\* Faulty variant of escapeAppleScriptString: backslashes are left as they are.
escapeAppleScriptStringQuotesOnly(str) ==
  ReplaceChar(ReplaceChar(str, 34, <<92, 34>>), 9, <<92, 116>>)

\* CommandExecutor.escapeAppleScriptString: \ doubled, " escaped, tab as \t
escapeAppleScriptString(str) ==
  ReplaceChar(ReplaceChar(ReplaceChar(str, 92, <<92, 92>>), 34, <<92, 34>>),
              9, <<92, 116>>)

\* ' & return & "' ... '"' appended for the lines from i on
RECURSIVE JoinWithReturn(_, _)
JoinWithReturn(lines, i) ==
  IF i > Len(lines) THEN <<>>
  ELSE <<32, 38, 32, 114, 101, 116, 117, 114, 110, 32, 38, 32, 34>>
       \o escapeAppleScriptString(lines[i]) \o <<34>> \o JoinWithReturn(lines, i + 1)

\* CommandExecutor.prepareMultilineCommand
prepareMultilineCommand(str) ==
  LET lines == Split(str) IN
  <<34>> \o escapeAppleScriptString(lines[1]) \o <<34>> \o JoinWithReturn(lines, 2)

\* str.includes('\n')
IncludesNewline(str) == \E i \in 1..Len(str) : str[i] = NL

\* CommandExecutor.escapeForAppleScript
escapeForAppleScript(str) ==
  IF IncludesNewline(str) THEN prepareMultilineCommand(str)
  ELSE EscapeNonPrintable(
         ReplaceChar(ReplaceChar(ReplaceChar(str, 92, <<92, 92>>), 34, <<92, 34>>),
                     39, <<39, 92, 39, 39>>))

\* Faulty variant of ScriptCommand: the encoded text is always put in quotes.
ScriptCommandAlwaysQuoted(command) ==
  [form |-> "quoted", arg |-> <<34>> \o escapeForAppleScript(command) \o <<34>>]

\* The argument of "write text": (expr) for a text with a line break, "..." otherwise.
ScriptCommand(command) ==
  IF IncludesNewline(command)
  THEN [form |-> "expression", arg |-> <<40>> \o escapeForAppleScript(command) \o <<41>>]
  ELSE [form |-> "quoted", arg |-> <<34>> \o escapeForAppleScript(command) \o <<34>>]

\* scriptCommand before executeCommand has set it.
NoScript == [form |-> "none", arg |-> <<>>]

\* ------------------------------------------------------ control characters
\* The upper-case mapping of one code unit, for the characters whose mapping
\* is an ASCII capital: a..z, and U+0131 (dotless i) and U+017F (long s),
\* which String.prototype.toUpperCase maps to "I" and "S".
UpperOf(ch) ==
  IF ch \in 97..122 THEN ch - 32
  ELSE IF ch = 305 THEN 73
  ELSE IF ch = 383 THEN 83
  ELSE ch

\* letter.toUpperCase()
RECURSIVE ToUpperCase(_)
ToUpperCase(s) ==
  IF s = <<>> THEN <<>>
  ELSE <<UpperOf(Head(s))>> \o ToUpperCase(Tail(s))

\* Faulty variant of ControlCode: the code is taken from the letter as typed.
ControlCodeAsTyped(letter) ==
  LET up == ToUpperCase(letter) IN
  IF up = <<93>> THEN 29
  ELSE IF up = <<69, 83, 67, 65, 80, 69>> \/ up = <<69, 83, 67>> THEN 27
  ELSE IF Len(up) = 1 /\ up[1] \in 65..90 THEN letter[1] - 64
  ELSE 0

\* SendControlCharacter.send, up to the script: the control code, or 0 for
\* 'Invalid control character letter'.
ControlCode(letter) ==
  LET up == ToUpperCase(letter) IN
  IF up = <<93>> THEN 29
  ELSE IF up = <<69, 83, 67, 65, 80, 69>> \/ up = <<69, 83, 67>> THEN 27
  ELSE IF Len(up) = 1 /\ up[1] \in 65..90 THEN up[1] - 64
  ELSE 0

\* Faulty variant of IsBelowThreshold: exactly 1% counts as idle.
IsBelowThresholdInclusive(cpu) == cpu <= CpuThreshold

\* ------------------------------------------------------------- detector
\* activeProcess.metrics.totalCPUPercent < 1
IsBelowThreshold(cpu) == cpu < CpuThreshold

\* Faulty variant of DebounceSatisfied: two idle samples are enough.
DebounceSatisfiedAfterTwo(belowThresholdTime) == belowThresholdTime >= 2 * ProbeInterval

\* belowThresholdTime >= 1000
DebounceSatisfied(belowThresholdTime) == belowThresholdTime >= DebounceWindow

\* Faulty variant of ProbeStep: a missing process is taken as one more idle
\* sample instead of ending the wait.
ProbeStepNoProcessIsSample(belowThresholdTime, answer) ==
  IF answer.kind = "throws"
  THEN [returns |-> TRUE, rejects |-> FALSE, value |-> TRUE, time |-> belowThresholdTime]
  ELSE IF answer.kind = "process" /\ ~(answer.cpu < CpuThreshold)
  THEN [returns |-> FALSE, rejects |-> FALSE, value |-> TRUE, time |-> 0]
  ELSE [returns |-> belowThresholdTime + ProbeInterval >= DebounceWindow,
        rejects |-> FALSE, value |-> TRUE,
        time |-> belowThresholdTime + ProbeInterval]

\* Faulty variant of ProbeStep: a probe failure rejects the detector's promise.
ProbeStepFailurePropagates(belowThresholdTime, answer) ==
  IF answer.kind = "throws"
  THEN [returns |-> TRUE, rejects |-> TRUE, value |-> TRUE, time |-> belowThresholdTime]
  ELSE IF answer.kind = "none"
  THEN [returns |-> TRUE, rejects |-> FALSE, value |-> TRUE, time |-> belowThresholdTime]
  ELSE IF answer.cpu < CpuThreshold
  THEN [returns |-> belowThresholdTime + ProbeInterval >= DebounceWindow,
        rejects |-> FALSE, value |-> TRUE,
        time |-> belowThresholdTime + ProbeInterval]
  ELSE [returns |-> FALSE, rejects |-> FALSE, value |-> TRUE, time |-> 0]

\* Faulty variant of ProbeStep: the time spent probing accumulates whatever
\* the CPU reading, so the wait ends after three probes at the latest.
ProbeStepCeiling(belowThresholdTime, answer) ==
  IF answer.kind = "throws"
  THEN [returns |-> TRUE, rejects |-> FALSE, value |-> TRUE, time |-> belowThresholdTime]
  ELSE IF answer.kind = "none"
  THEN [returns |-> TRUE, rejects |-> FALSE, value |-> TRUE, time |-> belowThresholdTime]
  ELSE [returns |-> belowThresholdTime + ProbeInterval >= DebounceWindow,
        rejects |-> FALSE, value |-> TRUE,
        time |-> belowThresholdTime + ProbeInterval]

\* Faulty variant of ProbeStep: the idle time is compared with the window
\* before the interval is added to it.
ProbeStepChecksBeforeAdding(belowThresholdTime, answer) ==
  IF answer.kind = "throws"
  THEN [returns |-> TRUE, rejects |-> FALSE, value |-> TRUE, time |-> belowThresholdTime]
  ELSE IF answer.kind = "none"
  THEN [returns |-> TRUE, rejects |-> FALSE, value |-> TRUE, time |-> belowThresholdTime]
  ELSE IF IsBelowThreshold(answer.cpu)
  THEN [returns |-> DebounceSatisfied(belowThresholdTime),
        rejects |-> FALSE, value |-> TRUE,
        time |-> belowThresholdTime + ProbeInterval]
  ELSE [returns |-> FALSE, rejects |-> FALSE, value |-> TRUE, time |-> 0]

\* One turn of the while (true) loop of isWaitingForUserInput, given the
\* accumulated idle time and the answer of getActiveProcess: whether the loop
\* returns, whether the promise rejects, the value returned and the new time.
ProbeStep(belowThresholdTime, answer) ==
  IF answer.kind = "throws"
  THEN [returns |-> TRUE, rejects |-> FALSE, value |-> TRUE, time |-> belowThresholdTime]
  ELSE IF answer.kind = "none"
  THEN [returns |-> TRUE, rejects |-> FALSE, value |-> TRUE, time |-> belowThresholdTime]
  ELSE IF IsBelowThreshold(answer.cpu)
  THEN [returns |-> DebounceSatisfied(belowThresholdTime + ProbeInterval),
        rejects |-> FALSE, value |-> TRUE,
        time |-> belowThresholdTime + ProbeInterval]
  ELSE [returns |-> FALSE, rejects |-> FALSE, value |-> TRUE, time |-> 0]

\* finally { ...; return true }: whatever the try or catch returned
FinallyValue(value) == TRUE

\* Faulty variant of KeepPolling: one poll, whatever it reports.
KeepPollingNever(isProcessing) == FALSE

\* Faulty variant of KeepPolling: the loop goes on whatever the poll reports.
KeepPollingAlways(isProcessing) == TRUE

\* while (await this.isProcessing()) { await sleep(100) }
KeepPolling(isProcessing) == isProcessing

\* Faulty variant of AfterDetector: no settle delay after the detector returns.
AfterDetectorNoSettle(value) == IF value = FALSE THEN "w_open" ELSE "w_execRead"

\* while (await this.isWaitingForUserInput(ttyPath) === false) { await sleep(100) }
\* and then the settle delay: where executeCommand goes when the detector returns.
AfterDetector(value) == IF value = FALSE THEN "w_open" ELSE "w_settle"

\* Faulty variant of OutputLines: the line of the text itself is left out.
OutputLinesLessOne(beforeLines, afterLines) == Max(0, afterLines - beforeLines - 1)

\* Math.max(0, afterCommandBufferLines - beforeCommandBufferLines)
OutputLines(beforeLines, afterLines) == Max(0, afterLines - beforeLines)

\* ---------------------------------------------------------------- state
\* world: the environment class of the run (fixed).
\* calls: the tool calls the server is handling, by call id: the position of
\*        each handler and the values of its locals and of its executor.
\* host:  the contents of the host's sessions, by device path (they change
\*        only in the worlds where they are state).
VARIABLES world, calls, host

vars == <<world, calls, host>>

\* The calls that may be in flight at once: the server awaits nothing between
\* requests, so the handlers of two requests interleave at their awaits.
CallIds == {1, 2}

\* The calls a world follows: both where the sessions' contents are state.
Slots(w) == IF Stateful(w) THEN CallIds ELSE {1}

\* "ls"
CmdLs == <<108, 115>>

\* "echo \"a'b\""
CmdQuotes == <<101, 99, 104, 111, 32, 34, 97, 39, 98, 34>>

\* "a\nb"
CmdTwoLines == <<97, 10, 98>>

\* The six characters \u00e9: a text that reads like an escape
CmdLikeEscape == <<92, 117, 48, 48, 101, 57>>

\* "'\''": a text that reads like a closed and reopened shell quote
CmdLikeReopen == <<39, 92, 39, 39>>

\* The longest text of the "encoder" world's alphabet the model sends.
MaxCommandLen == 3

\* The alphabet of those texts: "a", backslash, double quote, single quote,
\* tab, line break, e with acute accent (U+00E9).
CommandChars == {97, 92, 34, 39, 9, NL, 233}

\* Longer texts sent as well: the two above, the unit separator (U+001F) and
\* the euro sign (U+20AC) next to ASCII.
LongerCommands ==
  {CmdQuotes, CmdTwoLines, CmdLikeEscape, CmdLikeReopen, <<97, 31, 8364, 126, 32>>}

Commands(w) ==
  IF w = "bridge" THEN {CmdLs, CmdQuotes, CmdTwoLines}
  ELSE IF w = "encoder" THEN SeqsUpTo(CommandChars, MaxCommandLen) \cup LongerCommands
  ELSE {CmdLs}

\* "C", "c", "A", "Z", "]", "ESC", "Escape", "1", "", "AB", "@", "[",
\* U+0131 (dotless i), U+017F (long s)
Letters ==
  {<<67>>, <<99>>, <<65>>, <<90>>, <<93>>, <<69, 83, 67>>,
   <<69, 115, 99, 97, 112, 101>>, <<49>>, <<>>, <<65, 66>>, <<64>>, <<91>>,
   <<305>>, <<383>>}

\* The arguments of one tools/call request (a field a tool does not read is
\* left at its first value).
Requests(w) ==
  IF w = "bridge"
  THEN [tool : {"write_to_terminal"}, ttyPath : {NoTty, DevTtys002},
        command : Commands(w), filterBase64 : BOOLEAN,
        linesOfOutput : {0}, letter : {<<67>>}]
       \cup
       [tool : {"read_terminal_output"}, ttyPath : {NoTty, DevTtys002},
        command : {CmdLs}, filterBase64 : BOOLEAN,
        linesOfOutput : {0, 1, 2}, letter : {<<67>>}]
       \cup
       [tool : {"send_control_character"}, ttyPath : {NoTty, DevTtys002},
        command : {CmdLs}, filterBase64 : {TRUE},
        linesOfOutput : {0}, letter : Letters]
  ELSE IF Stateful(w)
  THEN [tool : {"write_to_terminal"}, ttyPath : {NoTty, DevTtys002},
        command : {CmdLs}, filterBase64 : {TRUE},
        linesOfOutput : {0}, letter : {<<67>>}]
  ELSE IF w = "resolver"
  THEN [tool : {"write_to_terminal", "read_terminal_output", "send_control_character"},
        ttyPath : {NoTty}, command : {CmdLs}, filterBase64 : {TRUE},
        linesOfOutput : {0}, letter : {<<67>>}]
  ELSE IF w = "progress"
  THEN [tool : {"write_to_terminal"}, ttyPath : {NoTty, DevTtys002},
        command : {CmdLs}, filterBase64 : {FALSE},
        linesOfOutput : {0}, letter : {<<67>>}]
  ELSE IF w = "growth"
  THEN [tool : {"write_to_terminal"}, ttyPath : {NoTty},
        command : {CmdLs}, filterBase64 : BOOLEAN,
        linesOfOutput : {0}, letter : {<<67>>}]
  ELSE IF w = "focus"
  THEN [tool : {"write_to_terminal"}, ttyPath : {NoTty},
        command : {CmdLs}, filterBase64 : {FALSE},
        linesOfOutput : {0}, letter : {<<67>>}]
  ELSE IF w = "filter"
  THEN [tool : {"read_terminal_output"}, ttyPath : {NoTty}, command : {CmdLs},
        filterBase64 : BOOLEAN, linesOfOutput : {0, 1, 2}, letter : {<<67>>}]
  ELSE [tool : {"write_to_terminal"}, ttyPath : {DevTtys002},
        command : Commands(w), filterBase64 : {TRUE},
        linesOfOutput : {0}, letter : {<<67>>}]

NoRequest ==
  [tool |-> "none", ttyPath |-> NoTty, command |-> <<>>, filterBase64 |-> TRUE,
   linesOfOutput |-> 0, letter |-> <<>>]

\* A handler before its first statement: every local unset.  previous is
\* how the call answered before this one ended ("none": there was none).
FreshCall(req, pc) ==
  [pc |-> pc,
   previous |-> "none",
   req |-> req,
   ttyPath |-> HandlerTtyPath(req.ttyPath),
   targetTtyPath |-> ConstructorTarget(HandlerTtyPath(req.ttyPath)),
   env |-> HealthyEnv,
   beforeCommandBuffer |-> <<>>,
   beforeCommandBufferLines |-> 0,
   buffer |-> <<>>,
   scriptCommand |-> NoScript,
   polls |-> 0,
   probeTty |-> NoTty,
   detectorCalls |-> 0,
   fdOpen |-> FALSE,
   belowThresholdTime |-> 0,
   samples |-> <<>>,
   slept |-> 0,
   rawAfterCommandBuffer |-> <<>>,
   afterCommandBufferLines |-> 0,
   outputLines |-> 0,
   controlCode |-> 0,
   output |-> <<>>,
   error |-> NoError,
   log |-> <<>>]

\* What a call did to the outside, in order: the bridge calls (with the target
\* of the script, what the host did, and the value read), the opens and probes
\* of the device path, and the sleeps that the claims name.
Event(op, target, o, val) ==
  [op |-> op, target |-> target, status |-> o.status, matched |-> o.matched,
   hit |-> o.hit, index |-> o.index, val |-> val]

Local(status) == [status |-> status, matched |-> FALSE, hit |-> NoTty, index |-> 0]

Init ==
  /\ world \in Worlds
  /\ calls = [c \in CallIds |-> FreshCall(NoRequest, "idle")]
  /\ host = [t \in HostTtys |-> BufUntouched]

\* A step of call c that leaves the sessions as they are.
Set(c, rec) == calls' = [calls EXCEPT ![c] = rec] /\ UNCHANGED <<world, host>>

\* The requests call c may get: in the "apart" world the first call is always
\* for the default session and the second for the other one, in the "shared"
\* world both are for the default session.
SlotRequests(w, c) ==
  IF w = "apart"
  THEN {r \in Requests(w) : r.ttyPath = IF c = 1 THEN NoTty ELSE DevTtys002}
  ELSE IF w = "shared" THEN {r \in Requests(w) : r.ttyPath = NoTty}
  ELSE Requests(w)

\* Whether the session a request is for has room for the line its text adds.
HasRoom(w, h, req) ==
  Stateful(w) => LineCount(h[HandlerTtyPath(req.ttyPath)]) < MaxBufferLines

\* The first statement of each case of the switch.
FirstPc(tool) ==
  IF tool = "write_to_terminal" THEN "w_before"
  ELSE IF tool = "read_terminal_output" THEN "r_read" ELSE "s_send"

\* Faulty variant of Request: one executor serves every call, so what the
\* call before left in it is still there.
RequestSameExecutor(c) ==
  /\ calls[c].pc = "idle"
  /\ c \in Slots(world)
  /\ \E req \in SlotRequests(world, c), env \in CallEnvs(world) :
       /\ HasRoom(world, host, req)
       /\ Set(c, [calls[c] EXCEPT !.pc = FirstPc(req.tool), !.req = req,
                                  !.ttyPath = TtyPathOf(world, req.ttyPath),
                                  !.env = env, !.log = <<>>, !.error = NoError])

\* server.setRequestHandler(CallToolRequestSchema, ...): a request arrives; the
\* handler computes ttyPath and constructs what its case needs.
Request(c) ==
  /\ calls[c].pc = "idle"
  /\ c \in Slots(world)
  /\ \E req \in SlotRequests(world, c), env \in CallEnvs(world) :
       /\ HasRoom(world, host, req)
       /\ Set(c, [FreshCall(req, FirstPc(req.tool))
                   EXCEPT !.env = env, !.previous = calls[c].previous,
                          !.ttyPath = TtyPathOf(world, req.ttyPath),
                          !.targetTtyPath = ConstructorTarget(TtyPathOf(world, req.ttyPath))])

\* The worlds in which the model follows what an answered call leaves behind.
KeepsHistory(w) == w = "detector"

\* The reply (a result or an error) has been sent.  What the handler and its
\* executor held is left as it is, since no code refers to it any more; where
\* the model does not follow it, it is dropped at once.
Reply(c) ==
  /\ calls[c].pc \in {"done", "failed"}
  /\ Set(c, IF KeepsHistory(world)
            THEN [calls[c] EXCEPT !.pc = "idle", !.previous = calls[c].pc]
            ELSE FreshCall(NoRequest, "idle"))

\* Faulty variant of Fail: the error is noted and the step is tried again.
FailThenRetry(call, e, ev) == [call EXCEPT !.error = e, !.log = Append(@, ev)]

\* A rejection leaves the handler: the call ends with this error.
Fail(call, e, ev) == [call EXCEPT !.pc = "failed", !.error = e, !.log = Append(@, ev)]

\* Faulty variant of W_BeforeSnapshot: a failed snapshot counts as an empty
\* buffer and the handler goes on.
W_BeforeSnapshotGoesOn(c) ==
  LET call == calls[c] IN
  /\ call.pc = "w_before"
  /\ \E o \in BridgeOutcomes(world, call.env, call.ttyPath) : \E contents \in Contents(world, host, o) :
       LET r == retrieveBuffer(call.ttyPath, o, contents)
           ev == Event("before", call.ttyPath, o, FALSE)
       IN  Set(c, [call EXCEPT !.pc = "w_send",
                               !.beforeCommandBuffer = r.text,
                               !.beforeCommandBufferLines = LineCount(r.text),
                               !.log = Append(@, ev)])

\* const beforeCommandBuffer = await TtyOutputReader.retrieveBuffer(ttyPath)
W_BeforeSnapshot(c) ==
  LET call == calls[c] IN
  /\ call.pc = "w_before"
  /\ \E o \in BridgeOutcomes(world, call.env, call.ttyPath) : \E contents \in Contents(world, host, o) :
       LET r == retrieveBuffer(call.ttyPath, o, contents)
           ev == Event("before", call.ttyPath, o, IF o.status = "ok" THEN contents ELSE FALSE)
       IN  Set(c, IF r.ok
                  THEN [call EXCEPT !.pc = "w_send",
                                    !.beforeCommandBuffer = r.text,
                                    !.beforeCommandBufferLines = LineCount(r.text),
                                    !.log = Append(@, ev)]
                  ELSE Fail(call, r.error, ev))

\* executeCommand: encode, build the script, await execPromise(osascript)
W_Send(c) ==
  LET call == calls[c] IN
  /\ call.pc = "w_send"
  /\ \E o \in BridgeOutcomes(world, call.env, call.targetTtyPath) :
       LET ev == [Event("send", call.targetTtyPath, o, FALSE)
                    EXCEPT !.status = IF o.status = "ok"
                                      THEN ScriptCommand(call.req.command).form
                                      ELSE o.status]
       IN  /\ calls' = [calls EXCEPT ![c] =
                          IF o.status = "ok"
                          THEN [call EXCEPT !.pc = "w_busy",
                                            !.scriptCommand = ScriptCommand(call.req.command),
                                            !.log = Append(@, ev)]
                          ELSE Fail([call EXCEPT !.scriptCommand =
                                                   ScriptCommand(call.req.command)],
                                    Wrap("Failed to execute command",
                                         ExecError(call.targetTtyPath, o)), ev)]
           /\ host' = IF Stateful(world) /\ o.status = "ok"
                      THEN [host EXCEPT ![o.hit] = WithLine(@, LineOf(c))]
                      ELSE host
           /\ Stateful(world) => LineCount(host[call.targetTtyPath]) < MaxBufferLines
           /\ UNCHANGED world

\* while (await this.isProcessing()): one poll
W_IsProcessing(c) ==
  LET call == calls[c] IN
  /\ call.pc = "w_busy"
  /\ call.polls < MaxBusyPolls
  /\ \E o \in BridgeOutcomes(world, call.env, call.targetTtyPath), busy \in BusyAnswers(world) :
       LET isProcessing == o.status = "ok" /\ busy
           ev == Event("isProcessing", call.targetTtyPath, o, isProcessing)
       IN  Set(c, IF o.status = "ok"
                  THEN [call EXCEPT !.pc = IF KeepPolling(isProcessing)
                                           THEN "w_busySleep" ELSE "w_resolve",
                                    !.polls = @ + 1,
                                    !.log = Append(@, ev)]
                  ELSE Fail(call,
                            Wrap("Failed to execute command",
                                 Wrap("Failed to check processing status",
                                      ExecError(call.targetTtyPath, o))), ev))

\* Faulty variant of W_BusySleep: after the sleep the text is sent again.
W_BusySleepResends(c) ==
  /\ calls[c].pc = "w_busySleep"
  /\ Set(c, [calls[c] EXCEPT !.pc = "w_send"])

\* await sleep(100) in the busy loop
W_BusySleep(c) ==
  /\ calls[c].pc = "w_busySleep"
  /\ Set(c, [calls[c] EXCEPT !.pc = "w_busy"])

\* const ttyPath = await this.retrieveTtyPath(): the target when there is one
\* (no bridge call), else "get tty" of the current session
W_RetrieveTtyPath(c) ==
  LET call == calls[c] IN
  /\ call.pc = "w_resolve"
  /\ \E o \in BridgeOutcomes(world, call.env, NoTty) :
       IF call.targetTtyPath # NoTty
       THEN Set(c, [call EXCEPT !.pc = "w_open",
                                !.probeTty = call.targetTtyPath,
                                !.log = Append(@, Event("resolve", call.targetTtyPath,
                                                        Local("local"), FALSE))])
       ELSE LET ev == Event("resolve", NoTty, o, FALSE) IN
            Set(c, IF o.status = "ok" /\ Trim(o.hit) # <<>>
                   THEN [call EXCEPT !.pc = "w_open", !.probeTty = Trim(o.hit),
                                     !.log = Append(@, ev)]
                   ELSE Fail(call,
                             Wrap("Failed to execute command",
                                  Wrap("Failed to retrieve TTY path", ExecError(NoTty, o))),
                             ev))

\* Faulty variant of W_OpenTty: when the device path cannot be opened the
\* detector returns false, and executeCommand calls it again.
W_OpenTtyFalseOnFailure(c) ==
  LET call == calls[c] IN
  /\ call.pc = "w_open"
  /\ \E opened \in OpenAnswers(world) :
       Set(c, IF opened
              THEN [call EXCEPT !.pc = "w_probe", !.fdOpen = TRUE,
                                !.detectorCalls = @ + 1,
                                !.belowThresholdTime = 0, !.samples = <<>>,
                                !.slept = 0,
                                !.log = Append(@, Event("open", call.probeTty,
                                                        Local("ok"), FALSE))]
              ELSE [call EXCEPT !.pc = AfterDetector(FALSE),
                                !.detectorCalls = @ + 1,
                                !.belowThresholdTime = 0, !.samples = <<>>,
                                !.slept = 0,
                                !.log = Append(@, Event("open", call.probeTty,
                                                        Local("throws"), FALSE))])

\* isWaitingForUserInput up to its loop: openSync(ttyPath, 'r'); a throw is
\* caught, and finally returns true
W_OpenTty(c) ==
  LET call == calls[c] IN
  /\ call.pc = "w_open"
  /\ \E opened \in OpenAnswers(world) :
       Set(c, IF opened
              THEN [call EXCEPT !.pc = "w_probe", !.fdOpen = TRUE,
                                !.detectorCalls = @ + 1,
                                !.belowThresholdTime = 0, !.samples = <<>>,
                                !.slept = 0,
                                !.log = Append(@, Event("open", call.probeTty,
                                                        Local("ok"), FALSE))]
              ELSE [call EXCEPT !.pc = AfterDetector(FinallyValue(TRUE)),
                                !.detectorCalls = @ + 1,
                                !.belowThresholdTime = 0, !.samples = <<>>,
                                !.slept = 0,
                                !.log = Append(@, Event("open", call.probeTty,
                                                        Local("throws"), FALSE))])

\* One turn of the detector's loop: getActiveProcess and what follows from it;
\* on return, finally closes the descriptor and returns true
W_Probe(c) ==
  LET call == calls[c] IN
  /\ call.pc = "w_probe"
  /\ Len(call.samples) < MaxProbes
  /\ \E answer \in ProbeAnswers(world) :
       LET step == ProbeStep(call.belowThresholdTime, answer)
           ev == Event("probe", call.probeTty, Local(answer.kind), FALSE)
       IN  Set(c, IF step.rejects
                  THEN Fail([call EXCEPT !.samples = Append(@, answer), !.fdOpen = FALSE],
                            Wrap("Failed to execute command",
                                 [NoError EXCEPT !.stderr = "probe"]), ev)
                  ELSE IF step.returns
                  THEN [call EXCEPT !.pc = AfterDetector(FinallyValue(step.value)),
                                    !.belowThresholdTime = step.time,
                                    !.samples = Append(@, answer),
                                    !.fdOpen = FALSE,
                                    !.log = Append(@, ev)]
                  ELSE [call EXCEPT !.pc = "w_probeSleep",
                                    !.belowThresholdTime = step.time,
                                    !.samples = Append(@, answer),
                                    !.log = Append(@, ev)])

\* await sleep(350) in the detector's loop
W_ProbeSleep(c) ==
  /\ calls[c].pc = "w_probeSleep"
  /\ Set(c, [calls[c] EXCEPT !.pc = "w_probe", !.slept = @ + ProbeInterval])

\* await sleep(200): the settle delay
W_Settle(c) ==
  LET call == calls[c] IN
  /\ call.pc = "w_settle"
  /\ Set(c, [call EXCEPT !.pc = "w_execRead",
                         !.log = Append(@, Event("settle", NoTty, Local("ok"), FALSE))])

\* Faulty variant of W_ExecRead: the read names no session, so it is the
\* focused session that is read.
W_ExecReadCurrentSession(c) ==
  LET call == calls[c] IN
  /\ call.pc = "w_execRead"
  /\ \E o \in BridgeOutcomes(world, call.env, NoTty) : \E contents \in Contents(world, host, o) :
       LET r == retrieveBuffer(NoTty, o, contents)
           ev == Event("execRead", NoTty, o, FALSE)
       IN  Set(c, IF r.ok
                  THEN [call EXCEPT !.pc = "w_after", !.log = Append(@, ev)]
                  ELSE Fail(call, Wrap("Failed to execute command", r.error), ev))

\* executeCommand's own read: TtyOutputReader.retrieveBuffer(this.targetTtyPath
\* || undefined), returned to the handler, which drops it
W_ExecRead(c) ==
  LET call == calls[c] IN
  /\ call.pc = "w_execRead"
  /\ \E o \in BridgeOutcomes(world, call.env, call.targetTtyPath) : \E contents \in Contents(world, host, o) :
       LET r == retrieveBuffer(call.targetTtyPath, o, contents)
           ev == Event("execRead", call.targetTtyPath, o, FALSE)
       IN  Set(c, IF r.ok
                  THEN [call EXCEPT !.pc = "w_after", !.log = Append(@, ev)]
                  ELSE Fail(call, Wrap("Failed to execute command", r.error), ev))

\* The handler after executeCommand: the second snapshot, the filter, the
\* counts and the reply
W_AfterSnapshot(c) ==
  LET call == calls[c] IN
  /\ call.pc = "w_after"
  /\ \E o \in BridgeOutcomes(world, call.env, call.ttyPath) : \E contents \in Contents(world, host, o) :
       LET r == retrieveBuffer(call.ttyPath, o, contents)
           ev == Event("after", call.ttyPath, o, IF o.status = "ok" THEN contents ELSE FALSE)
           afterCommandBuffer == IF call.req.filterBase64
                                 THEN filterBase64Content(r.text) ELSE r.text
           afterLines == LineCount(afterCommandBuffer)
       IN  Set(c, IF r.ok
                  THEN [call EXCEPT !.pc = "done",
                                    !.rawAfterCommandBuffer = r.text,
                                    !.afterCommandBufferLines = afterLines,
                                    !.outputLines =
                                       OutputLines(call.beforeCommandBufferLines, afterLines),
                                    !.log = Append(@, ev)]
                  ELSE Fail(call, r.error, ev))

\* Number(request.params.arguments?.linesOfOutput) || 25
LinesOfOutput(arg) == IF arg = 0 THEN DefaultLinesOfOutput ELSE arg

\* The index of the first character of the last n lines of s (1 when s has
\* fewer): lines.slice(-n).join('\n') is s from there on.
TailStart(s, n, i) ==
  LET breaks == {j \in 1..i : s[j] = NL} IN
  IF Cardinality(breaks) < n THEN 1
  ELSE (CHOOSE j \in breaks : Cardinality({k \in breaks : k >= j}) = n) + 1

\* Faulty variant of TtyOutputReaderCall: the slice takes linesOfOutput lines.
TtyOutputReaderCallExact(linesOfOutput, buffer, filterBase64) ==
  LET processedBuffer == IF filterBase64 THEN filterBase64Content(buffer) ELSE buffer IN
  IF linesOfOutput = 0 THEN processedBuffer
  ELSE SubSeq(processedBuffer,
              TailStart(processedBuffer, linesOfOutput, Len(processedBuffer)),
              Len(processedBuffer))

\* TtyOutputReader.call(linesOfOutput, ttyPath, filterBase64), given the buffer
TtyOutputReaderCall(linesOfOutput, buffer, filterBase64) ==
  LET processedBuffer == IF filterBase64 THEN filterBase64Content(buffer) ELSE buffer IN
  IF linesOfOutput = 0 THEN processedBuffer
  ELSE SubSeq(processedBuffer,
              TailStart(processedBuffer, linesOfOutput + 1, Len(processedBuffer)),
              Len(processedBuffer))

\* case "read_terminal_output"
R_Read(c) ==
  LET call == calls[c] IN
  /\ call.pc = "r_read"
  /\ \E o \in BridgeOutcomes(world, call.env, call.ttyPath) : \E contents \in Contents(world, host, o) :
       LET r == retrieveBuffer(call.ttyPath, o, contents)
           ev == Event("read", call.ttyPath, o, FALSE)
       IN  Set(c, IF r.ok
                  THEN [call EXCEPT !.pc = "done",
                                    !.buffer = r.text,
                                    !.output = TtyOutputReaderCall(
                                                 LinesOfOutput(call.req.linesOfOutput),
                                                 r.text, call.req.filterBase64),
                                    !.log = Append(@, ev)]
                  ELSE Fail(call, r.error, ev))

\* Faulty variant of S_Send: after the write it waits for the session as
\* write_to_terminal does.
S_SendThenWaits(c) ==
  LET call == calls[c]
      code == ControlCode(call.req.letter)
  IN
  /\ call.pc = "s_send"
  /\ \E o \in BridgeOutcomes(world, call.env, call.targetTtyPath) :
       LET ev == Event("control", call.targetTtyPath, o, FALSE) IN
       Set(c, IF code = 0
              THEN [call EXCEPT !.pc = "failed",
                                !.error = [NoError EXCEPT !.stderr = "invalidLetter"]]
              ELSE IF o.status = "ok"
              THEN [call EXCEPT !.pc = "w_busy", !.controlCode = code,
                                !.log = Append(@, ev)]
              ELSE Fail([call EXCEPT !.controlCode = code],
                        Wrap("Failed to send control character",
                             ExecError(call.targetTtyPath, o)), ev))

\* case "send_control_character": SendControlCharacter.send
S_Send(c) ==
  LET call == calls[c]
      code == ControlCode(call.req.letter)
  IN
  /\ call.pc = "s_send"
  /\ \E o \in BridgeOutcomes(world, call.env, call.targetTtyPath) :
       LET ev == Event("control", call.targetTtyPath, o, FALSE) IN
       Set(c, IF code = 0
              THEN [call EXCEPT !.pc = "failed",
                                !.error = [NoError EXCEPT !.stderr = "invalidLetter"]]
              ELSE IF o.status = "ok"
              THEN [call EXCEPT !.pc = "done", !.controlCode = code,
                                !.log = Append(@, ev)]
              ELSE Fail([call EXCEPT !.controlCode = code],
                        Wrap("Failed to send control character",
                             ExecError(call.targetTtyPath, o)), ev))

\* The command running in session t prints a line.
Host_Output(t) ==
  /\ Stateful(world)
  /\ LastWriter(host[t]) # 0
  /\ LineCount(host[t]) < MaxBufferLines
  /\ host' = [host EXCEPT ![t] = WithLine(@, LineOf(LastWriter(@)))]
  /\ UNCHANGED <<world, calls>>

Next ==
  \/ \E t \in HostTtys : Host_Output(t)
  \/ \E c \in CallIds :
    \/ Request(c)
    \/ Reply(c)
    \/ W_BeforeSnapshot(c)
    \/ W_Send(c)
    \/ W_IsProcessing(c)
    \/ W_BusySleep(c)
    \/ W_RetrieveTtyPath(c)
    \/ W_OpenTty(c)
    \/ W_Probe(c)
    \/ W_ProbeSleep(c)
    \/ W_Settle(c)
    \/ W_ExecRead(c)
    \/ W_AfterSnapshot(c)
    \/ R_Read(c)
    \/ S_Send(c)

Spec == Init /\ [][Next]_vars

\* The world in which the progress of a call is followed.
LiveWorlds == {"progress"}

LiveInit == Init /\ world \in LiveWorlds

\* The steps of the handlers; the sessions' contents are not state here.
LiveNext ==
  \E c \in CallIds :
    \/ Request(c)
    \/ Reply(c)
    \/ W_BeforeSnapshot(c)
    \/ W_Send(c)
    \/ W_IsProcessing(c)
    \/ W_BusySleep(c)
    \/ W_RetrieveTtyPath(c)
    \/ W_OpenTty(c)
    \/ W_Probe(c)
    \/ W_ProbeSleep(c)
    \/ W_Settle(c)
    \/ W_ExecRead(c)
    \/ W_AfterSnapshot(c)

\* A step of the write_to_terminal handler of call c: the continuation of an
\* await whose promise (a bridge call, a probe, a timer) has settled.
WriteStep(c) ==
  \/ W_BeforeSnapshot(c)
  \/ W_Send(c)
  \/ W_IsProcessing(c)
  \/ W_BusySleep(c)
  \/ W_RetrieveTtyPath(c)
  \/ W_OpenTty(c)
  \/ W_Probe(c)
  \/ W_ProbeSleep(c)
  \/ W_Settle(c)
  \/ W_ExecRead(c)
  \/ W_AfterSnapshot(c)

\* The event loop runs every continuation that is ready: a handler that can
\* take a step does not wait for ever.
LiveSpec == LiveInit /\ [][LiveNext]_vars /\ \A c \in CallIds : WF_vars(WriteStep(c))

\* ----------------------------------------------------------- properties
\* Vocabulary of the properties below.
IsWrite(call) == call.req.tool = "write_to_terminal"

HasOp(call, op) == \E i \in 1..Len(call.log) : call.log[i].op = op

\* The detector has returned and executeCommand has left its retry loop:
\* the settle delay is next or has been taken.
Ready(call) == call.pc = "w_settle" \/ HasOp(call, "settle")

\* The detector is between probes or about to make one.
Probing(call) == call.pc \in {"w_probe", "w_probeSleep"}

IsLow(sample) == sample.kind = "process" /\ sample.cpu < CpuThreshold

IsHigh(sample) == sample.kind = "process" /\ sample.cpu >= CpuThreshold

AllActive(samples) == \A i \in 1..Len(samples) : samples[i].kind = "process"

IsPrefixOf(s, t) == Len(s) <= Len(t) /\ s = SubSeq(t, 1, Len(s))

\* The sample sequence [5, 0.5, 0.5, 0.5]
SamplesDebounce == <<ActiveProcess(50), ActiveProcess(5), ActiveProcess(5), ActiveProcess(5)>>

\* The sample sequence [5, 0.5, 5, 0.5, 0.5, 0.5]
SamplesSpike ==
  <<ActiveProcess(50), ActiveProcess(5), ActiveProcess(50), ActiveProcess(5),
    ActiveProcess(5), ActiveProcess(5)>>

\* C1: when every probe reported an active process, the detector is Ready after
\* probe n only if probes n-2, n-1 and n all reported CPU below 1%; on the
\* samples [5, 0.5, 0.5, 0.5] it is still probing after the second and third
\* probe and Ready at the fourth.
C1_DebounceNeedsThreeLowSamples ==
  \A c \in CallIds :
    LET call == calls[c]
        n == Len(call.samples)
    IN  /\ (Ready(call) /\ n > 0 /\ AllActive(call.samples))
             => /\ n >= 3
                /\ \A j \in (n - 2)..n : IsLow(call.samples[j])
        /\ (n >= 1 /\ IsPrefixOf(call.samples, SamplesDebounce))
             => IF n < 4 THEN Probing(call) /\ ~Ready(call) ELSE Ready(call)

C1_Witness ==
  \E c \in CallIds : calls[c].samples = SamplesDebounce /\ calls[c].pc = "w_settle"

\* C2: after a probe that reported an active process with CPU at or above 1%
\* (exactly 1% included) the accumulated idle time is zero and the detector
\* goes on probing; on the samples [5, 0.5, 5, 0.5, 0.5, 0.5] it is Ready at
\* the sixth probe and at none before.
C2_HighSampleResetsIdleTime ==
  \A c \in CallIds :
    LET call == calls[c]
        n == Len(call.samples)
    IN  /\ (n > 0 /\ IsHigh(call.samples[n]))
             => call.belowThresholdTime = 0 /\ Probing(call) /\ ~Ready(call)
        /\ (n >= 1 /\ IsPrefixOf(call.samples, SamplesSpike))
             => IF n < 6 THEN Probing(call) /\ ~Ready(call) ELSE Ready(call)

C2_Witness ==
  \E c \in CallIds : calls[c].samples = SamplesSpike /\ calls[c].pc = "w_settle"

\* The steps of one write_to_terminal call that may directly follow one another.
MayFollow(a, b) ==
  \/ a.op = "before" /\ b.op = "send"
  \/ a.op = "send" /\ b.op = "isProcessing"
  \/ a.op = "isProcessing" /\ a.val /\ b.op = "isProcessing"
  \/ a.op = "isProcessing" /\ ~a.val /\ b.op = "resolve"
  \/ a.op = "resolve" /\ b.op = "open"
  \/ a.op = "open" /\ a.status = "ok" /\ b.op = "probe"
  \/ a.op = "open" /\ a.status = "throws" /\ b.op = "settle"
  \/ a.op = "probe" /\ b.op \in {"probe", "settle"}
  \/ a.op = "settle" /\ b.op = "execRead"
  \/ a.op = "execRead" /\ b.op = "after"

\* C3: the steps of one write_to_terminal call happen in the order
\* before-snapshot, dispatch, busy-flag polls until one reports false,
\* device-path resolution, probes until Ready, settle delay, (the executor's
\* read,) after-snapshot; a call that reports a count has taken every one of
\* them, and the after-snapshot comes after Ready and the settle delay.
C3_StepsInOrder ==
  \A c \in CallIds :
    LET call == calls[c]
        log == call.log
    IN  IsWrite(call) =>
          /\ log # <<>> => log[1].op = "before"
          /\ \A i \in 1..(Len(log) - 1) : MayFollow(log[i], log[i + 1])
          /\ HasOp(call, "after") => HasOp(call, "settle")
          /\ call.pc = "done" => log[Len(log)].op = "after"

C3_Witness ==
  \E c \in CallIds :
    /\ IsWrite(calls[c])
    /\ calls[c].pc = "done"
    /\ calls[c].polls >= 2
    /\ Len(calls[c].samples) >= 3

\* The bridge calls of a call.
BridgeOps == {"before", "send", "isProcessing", "resolve", "execRead", "after", "read", "control"}

\* Every bridge call of the call found no session with the requested path.
NoSessionHadThePath(call) ==
  /\ call.log # <<>>
  /\ \A i \in 1..Len(call.log) :
       call.log[i].op \in BridgeOps
         => call.log[i].status = "notFound" /\ ~call.log[i].matched

\* The error of the call is the not-found report and names the requested path.
IsSessionNotFound(call) ==
  /\ call.pc = "failed"
  /\ call.error.stderr = "notFound"
  /\ call.error.path = call.ttyPath

\* C4 (as claimed): an operation whose requested device path no open session
\* has ends in a SessionNotFound error that carries the path, never in a
\* result.
C4_UnknownPathFails ==
  \A c \in CallIds :
    (calls[c].pc \in {"done", "failed"} /\ NoSessionHadThePath(calls[c]))
      => IsSessionNotFound(calls[c])

\* C5 (as claimed): a call without a session identifier addresses the current
\* session in every bridge call: no device path stands in for the missing one.
C5_NoIdentifierMeansCurrentSession ==
  \A c \in CallIds :
    LET call == calls[c] IN
    (call.req.tool # "none" /\ call.req.ttyPath = NoTty)
      => /\ call.ttyPath = NoTty
         /\ \A i \in 1..Len(call.log) :
              call.log[i].op \in BridgeOps => call.log[i].target = NoTty

\* C6 (as claimed): the reported count is max(0, afterCount - beforeCount) with
\* both counts the line counts of the two snapshots, so it is never negative.
C6_CountIsSnapshotDifference ==
  \A c \in CallIds :
    LET call == calls[c] IN
    (IsWrite(call) /\ call.pc = "done")
      => /\ call.outputLines >= 0
         /\ call.outputLines =
              Max(0, LineCount(call.rawAfterCommandBuffer)
                     - LineCount(call.beforeCommandBuffer))

\* C7: a probe that reports no active process is the detector's last: the
\* detector is Ready at it, whatever idle time had accumulated.
C7_NoProcessIsReady ==
  \A c \in CallIds :
    LET call == calls[c] IN
    \A i \in 1..Len(call.samples) :
      call.samples[i] = NoProcess => i = Len(call.samples) /\ Ready(call)

C7_Witness ==
  \E c \in CallIds :
    /\ calls[c].samples = <<ActiveProcess(5), ActiveProcess(5), NoProcess>>
    /\ calls[c].belowThresholdTime = 2 * ProbeInterval
    /\ calls[c].pc = "w_settle"

\* The detector of the call met a failure: a probe threw, or the device path
\* could not be opened.
DetectorFailed(call) ==
  \/ \E i \in 1..Len(call.samples) : call.samples[i] = ProbeThrows
  \/ \E i \in 1..Len(call.log) : call.log[i].op = "open" /\ call.log[i].status = "throws"

\* C8: a failed probe or a failed open of the device path makes the detector
\* Ready; it is the detector's last step, and the call fails afterwards only
\* through a later bridge call, never through the probe.
C8_ProbeFailureIsReady ==
  \A c \in CallIds :
    LET call == calls[c]
        log == call.log
    IN  DetectorFailed(call) =>
          /\ Ready(call)
          /\ \A i \in 1..Len(call.samples) :
               call.samples[i] = ProbeThrows => i = Len(call.samples)
          /\ call.pc = "failed" =>
               /\ log[Len(log)].op \in {"execRead", "after"}
               /\ call.error.stderr \in {"notRunning", "failed"}

C8_Witness ==
  \E c \in CallIds :
    /\ calls[c].pc = "done"
    /\ Len(calls[c].samples) >= 2
    /\ calls[c].samples[Len(calls[c].samples)] = ProbeThrows
    /\ HasOp(calls[c], "after")

\* A busy-flag poll that reported false.
ReportedNotBusy(e) == e.op = "isProcessing" /\ e.status = "ok" /\ ~e.val

\* C9: the device path is resolved and probed only after a busy-flag poll that
\* reported false, with no poll after it; while the latest poll reported true
\* the call is polling.
C9_BusyFlagClearsFirst ==
  \A c \in CallIds :
    LET call == calls[c]
        log == call.log
    IN  /\ \A i \in 1..Len(log) :
             log[i].op \in {"resolve", "open", "probe"}
               => \E j \in 1..(i - 1) :
                    /\ ReportedNotBusy(log[j])
                    /\ \A k \in (j + 1)..(i - 1) : log[k].op # "isProcessing"
        /\ call.pc \in {"w_resolve", "w_open", "w_probe", "w_probeSleep"}
             => \E j \in 1..Len(log) :
                  /\ ReportedNotBusy(log[j])
                  /\ \A k \in (j + 1)..Len(log) : log[k].op # "isProcessing"
        /\ (log # <<>> /\ log[Len(log)].op = "isProcessing" /\ log[Len(log)].val)
             => call.pc \in {"w_busy", "w_busySleep"}

C9_Witness ==
  \E c \in CallIds :
    /\ calls[c].pc = "w_open"
    /\ calls[c].polls >= 2
    /\ calls[c].log[Len(calls[c].log)].op = "resolve"

\* C10: no ceiling on the wait.  However many probes there have been, if each
\* reported an active process at or above 1% the detector is still probing and
\* the call has neither returned nor failed; however many busy-flag polls
\* there have been, if each reported true the call is still polling.
C10_NoMaximumWait ==
  \A c \in CallIds :
    LET call == calls[c]
        log == call.log
        pollsAt == {i \in 1..Len(log) : log[i].op = "isProcessing"}
    IN  /\ (call.samples # <<>> /\ \A i \in 1..Len(call.samples) : IsHigh(call.samples[i]))
             => Probing(call) /\ ~Ready(call)
        /\ (pollsAt # {} /\ \A i \in pollsAt : log[i].status = "ok" /\ log[i].val)
             => call.pc \in {"w_busy", "w_busySleep"}

C10_Witness ==
  \E c \in CallIds :
    /\ Len(calls[c].samples) = MaxProbes
    /\ \A i \in 1..MaxProbes : IsHigh(calls[c].samples[i])
    /\ calls[c].pc = "w_probeSleep"

\* Vocabulary of the control-character properties.
IsControl(call) == call.req.tool = "send_control_character"

\* ASCII letters in capitals, other characters as they are.
RECURSIVE AsciiUpper(_)
AsciiUpper(s) ==
  IF s = <<>> THEN <<>>
  ELSE <<IF Head(s) \in 97..122 THEN Head(s) - 32 ELSE Head(s)>> \o AsciiUpper(Tail(s))

\* "ESC", "ESCAPE"
EscNames == {<<69, 83, 67>>, <<69, 83, 67, 65, 80, 69>>}

\* The inputs the specification accepts: one letter A-Z in either case, "]",
\* or ESC / Escape in any letter case.
IsAcceptedLetter(letter) ==
  \/ Len(letter) = 1 /\ (letter[1] \in 65..90 \/ letter[1] \in 97..122)
  \/ letter = <<93>>
  \/ AsciiUpper(letter) \in EscNames

\* The code the specification gives an accepted input.
CodeOf(letter) ==
  IF letter = <<93>> THEN 29
  ELSE IF AsciiUpper(letter) \in EscNames THEN 27
  ELSE AsciiUpper(letter)[1] - 64

\* C11 (as claimed): a send_control_character call whose letter is not an
\* accepted input fails with the invalid-letter error and has made no bridge
\* call.
C11_OtherInputIsRejected ==
  \A c \in CallIds :
    LET call == calls[c] IN
    (IsControl(call) /\ ~IsAcceptedLetter(call.req.letter))
      => /\ call.log = <<>>
         /\ call.pc \in {"done", "failed"}
              => call.pc = "failed" /\ call.error.stderr = "invalidLetter"

\* C12: whenever send_control_character has made its bridge call for an
\* accepted input, the code it sent is the letter's position in the alphabet
\* (A 1, C 3, Z 26), 29 for "]" and 27 for ESC or Escape; every code sent is
\* in 1..29.
C12_ControlCodeTable ==
  \A c \in CallIds :
    LET call == calls[c] IN
    (IsControl(call) /\ call.log # <<>>)
      => /\ call.controlCode \in 1..29
         /\ IsAcceptedLetter(call.req.letter)
              => call.controlCode = CodeOf(call.req.letter)

C12_Witness ==
  \E c \in CallIds :
    /\ IsControl(calls[c])
    /\ calls[c].req.letter = <<99>>
    /\ calls[c].pc = "done"
    /\ calls[c].controlCode = 3

\* C13: a send_control_character call that passed validation ends after
\* exactly one bridge call, the character write to the session it targets; it
\* makes no busy-flag poll, no probe and no buffer read.
C13_OneBridgeCall ==
  \A c \in CallIds :
    LET call == calls[c] IN
    IsControl(call) =>
      /\ Len(call.log) <= 1
      /\ \A i \in 1..Len(call.log) :
           call.log[i].op = "control" /\ call.log[i].target = call.targetTtyPath
      /\ (call.pc \in {"done", "failed"} /\ call.error.stderr # "invalidLetter")
           => Len(call.log) = 1
      /\ call.pc \in {"s_send", "done", "failed", "idle"}
      /\ call.samples = <<>> /\ call.polls = 0

C13_Witness ==
  \E c \in CallIds :
    /\ IsControl(calls[c])
    /\ calls[c].pc = "done"
    /\ calls[c].req.letter = <<93>>
    /\ Len(calls[c].log) = 1
    /\ calls[c].log[1].status = "ok"

\* The bridge calls that run a script against a session (the device-path
\* query of a call that has a target runs none).
IsScriptRun(e) == e.op \in BridgeOps /\ e.status # "local"

\* The script found its session and the action ran.
ActionRan(e) == e.status \in {"ok", "quoted", "expression"}

\* Session i of the list has the path and raises neither when inspected nor
\* when told the action.
Answers(sessions, i, path) ==
  sessions[i].tty = path /\ ~sessions[i].inspectErr /\ ~sessions[i].actErr

LaterSessionAnswers(sessions, j, path) ==
  /\ j \in 1..Len(sessions)
  /\ Answers(sessions, j, path)
  /\ \A k \in 1..(j - 1) : ~Answers(sessions, k, path)
  /\ \E k \in 1..(j - 1) : sessions[k].inspectErr

\* C15: when a session raises while it is inspected and a later session of the
\* enumeration has the requested path, every script of the call acts on that
\* later session and succeeds: the call does not fail and reports no
\* not-found.
C15_InspectionErrorIsSkipped ==
  \A c \in CallIds :
    LET call == calls[c] IN
    world = "resolver" =>
      \A j \in 1..Len(call.env.sessions) :
        LaterSessionAnswers(call.env.sessions, j, call.ttyPath)
          => /\ call.pc # "failed"
             /\ \A i \in 1..Len(call.log) :
                  IsScriptRun(call.log[i])
                    => ActionRan(call.log[i]) /\ call.log[i].index = j

C15_Witness ==
  \E c \in CallIds :
    /\ world = "resolver"
    /\ IsWrite(calls[c])
    /\ calls[c].pc = "done"
    /\ LaterSessionAnswers(calls[c].env.sessions, 2, calls[c].ttyPath)
    /\ calls[c].env.sessions[1].tty = calls[c].ttyPath
    /\ HasOp(calls[c], "isProcessing")

\* The osascript run of the bridge call ended in an error.
BridgeCallFailed(e) ==
  /\ e.op \in BridgeOps
  /\ \/ e.status \in {"notRunning", "failed"}
     \/ e.status = "notFound" /\ e.op \in {"send", "isProcessing", "control"}

\* The words with which the error of each operation begins.
OperationName(op) ==
  IF op \in {"before", "execRead", "after", "read"} THEN "Failed to retrieve buffer"
  ELSE IF op = "send" THEN "Failed to execute command"
  ELSE IF op = "isProcessing" THEN "Failed to check processing status"
  ELSE IF op = "resolve" THEN "Failed to retrieve TTY path"
  ELSE "Failed to send control character"

\* C16: when a bridge call of a write_to_terminal call fails, that call is the
\* last one the tool call makes, and the tool call has ended with one error
\* that reports what the bridge reported under the name of the operation that
\* failed.
C16_FailureEndsTheCall ==
  \A c \in CallIds :
    LET call == calls[c]
        log == call.log
    IN  (IsWrite(call) /\ call.pc # "idle") =>
          /\ \A i \in 1..Len(log) :
               BridgeCallFailed(log[i])
                 => /\ i = Len(log)
                    /\ call.pc = "failed"
                    /\ call.error.stderr = log[i].status
                    /\ call.error.ctx # <<>>
                    /\ call.error.ctx[Len(call.error.ctx)] = OperationName(log[i].op)
          /\ call.pc = "failed" => log # <<>> /\ BridgeCallFailed(log[Len(log)])

C16_Witness ==
  \E c \in CallIds :
    /\ IsWrite(calls[c])
    /\ calls[c].pc = "failed"
    /\ calls[c].polls = 1
    /\ calls[c].log[Len(calls[c].log)].op = "isProcessing"
    /\ calls[c].error.stderr = "failed"
    /\ calls[c].error.ctx = <<"Failed to execute command", "Failed to check processing status">>

\* C17 (as claimed): a call that failed because the host application is not
\* running reports an error that carries the hint that the application might
\* not be running.
C17_NotRunningCarriesHint ==
  \A c \in CallIds :
    (calls[c].pc = "failed" /\ calls[c].error.stderr = "notRunning")
      => calls[c].error.hint

\* The number of lines of the text that call c's text and command produced.
LinesOf(text, c) == Cardinality({i \in 1..Len(text) : text[i] = 48 + c})

\* The lines call d produced in the session between the two snapshots of the call.
LinesBetween(call, d) ==
  LinesOf(call.rawAfterCommandBuffer, d) - LinesOf(call.beforeCommandBuffer, d)

\* C18: of two write_to_terminal calls in flight on different sessions, each
\* reports the number of lines its own text and command added to its own
\* session between its two snapshots, and neither snapshot shows a line of the
\* other call: the count is what the call would report alone.
C18_DifferentSessionsDoNotInterfere ==
  world = "apart" =>
    \A c \in CallIds : \A d \in CallIds \ {c} :
      LET call == calls[c] IN
      IsWrite(call) =>
        /\ LinesOf(call.beforeCommandBuffer, d) = 0
        /\ LinesOf(call.rawAfterCommandBuffer, d) = 0
        /\ LinesOf(host[call.ttyPath], d) = 0
        /\ call.pc = "done" => call.outputLines = LinesBetween(call, c)

C18_Witness ==
  /\ world = "apart"
  /\ calls[1].pc = "done"
  /\ calls[1].outputLines = 2
  /\ calls[2].pc = "w_after"
  /\ LinesOf(host[DevTtys002], 2) = 2
  /\ LinesOf(calls[2].beforeCommandBuffer, 2) = 0

\* C19: two write_to_terminal calls on one session are not kept apart: each
\* reports every line added to the session between its two snapshots, also
\* the lines of the other call's text and command, and there is a run in
\* which the first call's count includes such lines.
C19_SameSessionCountsMix ==
  world = "shared" =>
    \A c \in CallIds : \A d \in CallIds \ {c} :
      LET call == calls[c] IN
      call.pc = "done" => call.outputLines = LinesBetween(call, c) + LinesBetween(call, d)

C19_Witness ==
  /\ world = "shared"
  /\ calls[1].pc = "done"
  /\ LinesOf(calls[1].beforeCommandBuffer, 2) = 0
  /\ LinesBetween(calls[1], 1) = 1
  /\ LinesBetween(calls[1], 2) >= 1
  /\ calls[1].outputLines > LinesBetween(calls[1], 1)
  /\ calls[2].pc \notin {"idle", "w_before", "w_send"}

\* The first statement of each tool's handler.
FirstStatements == {"w_before", "r_read", "s_send"}

\* C20: whatever call was answered before (none, one that succeeded, one that
\* failed), a call at its first statement holds nothing of it: its executor
\* is built from the call's own arguments and every local is unset; and each
\* run of the detector starts from a zero idle time.  Every later step reads
\* only these values and the responses, so equal responses give equal results.
C20_NothingPersists ==
  \A c \in CallIds :
    LET call == calls[c] IN
    /\ call.pc \in FirstStatements
         => /\ call.ttyPath = TtyPathOf(world, call.req.ttyPath)
            /\ call.targetTtyPath = call.ttyPath
            /\ call.belowThresholdTime = 0
            /\ call.samples = <<>>
            /\ call.slept = 0
            /\ call.polls = 0
            /\ call.detectorCalls = 0
            /\ ~call.fdOpen
            /\ call.probeTty = NoTty
            /\ call.beforeCommandBuffer = <<>>
            /\ call.rawAfterCommandBuffer = <<>>
            /\ call.beforeCommandBufferLines = 0
            /\ call.afterCommandBufferLines = 0
            /\ call.outputLines = 0
            /\ call.controlCode = 0
            /\ call.buffer = <<>>
            /\ call.scriptCommand = NoScript
            /\ call.output = <<>>
            /\ call.error = NoError
            /\ call.log = <<>>
    /\ (call.pc = "w_probe" /\ ~HasOp(call, "probe"))
         => call.belowThresholdTime = 0 /\ call.samples = <<>>
    /\ call.pc \notin {"idle"} \cup FirstStatements
         => call.targetTtyPath = TtyPathOf(world, call.req.ttyPath)

C20_Witness ==
  \E c \in CallIds :
    /\ world = "detector"
    /\ calls[c].previous = "done"
    /\ calls[c].pc = "done"
    /\ calls[c].samples = SamplesDebounce

\* ------------------------------------------------- reading, encoding, filtering
IsRead(call) == call.req.tool = "read_terminal_output"

\* The lines joined by line breaks.
RECURSIVE JoinLines(_)
JoinLines(lines) ==
  IF Len(lines) = 1 THEN lines[1]
  ELSE lines[1] \o <<NL>> \o JoinLines(Tail(lines))

\* The last n of the lines, all of them when there are no more than n.
LastLines(lines, n) == SubSeq(lines, Max(1, Len(lines) - n + 1), Len(lines))

\* The buffer a read call worked on, filtered when the call asked for it.
Processed(call) ==
  IF call.req.filterBase64 THEN filterBase64Content(call.buffer) ELSE call.buffer

\* C21 (as claimed): a read with linesOfOutput = N returns the trailing N + 1
\* lines of the (optionally filtered) buffer, in order, for every N >= 0.
C21_TrailingLinesPlusOne ==
  \A c \in CallIds :
    LET call == calls[c] IN
    (IsRead(call) /\ call.pc = "done")
      => call.output =
           JoinLines(LastLines(Split(Processed(call)), call.req.linesOfOutput + 1))

\* C21 (amended): a read with linesOfOutput = N returns the trailing N + 1
\* lines of the (optionally filtered) buffer, in order, and the whole buffer
\* when it has no more than N + 1 lines, for every N >= 1; with N = 0 the
\* handler takes 25 for N, so the trailing 26 lines are returned.
C21_TrailingLinesOrDefault ==
  \A c \in CallIds :
    LET call == calls[c]
        n == IF call.req.linesOfOutput = 0
             THEN DefaultLinesOfOutput ELSE call.req.linesOfOutput
        lines == Split(Processed(call))
    IN  (IsRead(call) /\ call.pc = "done")
          => /\ call.output = JoinLines(LastLines(lines, n + 1))
             /\ LineCount(call.output) = Min(n + 1, Len(lines))
             /\ Len(lines) <= n + 1 => call.output = Processed(call)

\* A read of a four-line buffer with linesOfOutput = 2 has returned "2\n3\n4".
C21_Witness ==
  \E c \in CallIds :
    /\ IsRead(calls[c])
    /\ calls[c].pc = "done"
    /\ calls[c].req.linesOfOutput = 2
    /\ calls[c].buffer = NumberedLines(4)
    /\ calls[c].output = <<50, NL, 51, NL, 52>>

\* A character no text holds: what a decoder returns for what it cannot read.
Bad == 0 - 1

IsGood(s) == \A i \in 1..Len(s) : s[i] # Bad

\* The value of a hexadecimal digit, Bad for another character.
HexValue(ch) ==
  IF ch \in 48..57 THEN ch - 48
  ELSE IF ch \in 97..102 THEN ch - 87
  ELSE IF ch \in 65..70 THEN ch - 55
  ELSE Bad

\* What the shell passes on of text written inside a single-quoted word, from
\* position i on: inside the quotes everything but "'" is literal; outside,
\* a backslash makes the next character literal and "'" opens the quotes
\* again.  The text has to end inside the quotes.
RECURSIVE ShellUnquote(_, _, _)
ShellUnquote(s, i, quoted) ==
  IF i > Len(s) THEN (IF quoted THEN <<>> ELSE <<Bad>>)
  ELSE IF quoted
  THEN IF s[i] = 39 THEN ShellUnquote(s, i + 1, FALSE)
       ELSE <<s[i]>> \o ShellUnquote(s, i + 1, TRUE)
  ELSE IF s[i] = 92 /\ i < Len(s) THEN <<s[i + 1]>> \o ShellUnquote(s, i + 2, FALSE)
  ELSE IF s[i] = 39 THEN ShellUnquote(s, i + 1, TRUE)
  ELSE <<s[i]>> \o ShellUnquote(s, i + 1, FALSE)

\* The text a quoted literal with body s stands for, read from position i on:
\* \\ is a backslash, \" a double quote, \t a tab where tabs is set, \uXXXX
\* the character with that code where unicode is set; a double quote or a
\* backslash that is not part of such an escape cannot be read.
RECURSIVE Unescape(_, _, _, _)
Unescape(s, i, tabs, unicode) ==
  IF i > Len(s) THEN <<>>
  ELSE IF s[i] = 34 THEN <<Bad>>
  ELSE IF s[i] # 92 THEN <<s[i]>> \o Unescape(s, i + 1, tabs, unicode)
  ELSE IF i = Len(s) THEN <<Bad>>
  ELSE IF s[i + 1] \in {92, 34} THEN <<s[i + 1]>> \o Unescape(s, i + 2, tabs, unicode)
  ELSE IF tabs /\ s[i + 1] = 116 THEN <<9>> \o Unescape(s, i + 2, tabs, unicode)
  ELSE IF /\ unicode
          /\ s[i + 1] = 117
          /\ i + 5 <= Len(s)
          /\ \A j \in (i + 2)..(i + 5) : HexValue(s[j]) # Bad
  THEN <<4096 * HexValue(s[i + 2]) + 256 * HexValue(s[i + 3])
         + 16 * HexValue(s[i + 4]) + HexValue(s[i + 5])>>
       \o Unescape(s, i + 6, tabs, unicode)
  ELSE <<Bad>>

\* The position of the double quote that closes a literal whose body starts
\* at i (0: none).
RECURSIVE ClosingQuote(_, _)
ClosingQuote(s, i) ==
  IF i > Len(s) THEN 0
  ELSE IF s[i] = 92 THEN ClosingQuote(s, i + 2)
  ELSE IF s[i] = 34 THEN i
  ELSE ClosingQuote(s, i + 1)

\* " & return & "
ReturnJoin == <<32, 38, 32, 114, 101, 116, 117, 114, 110, 32, 38, 32>>

\* The bodies of the quoted literals of an expression of the shape
\* "..." & return & "..." & return & ... read from position i on, in order;
\* <<Bad>> stands for what does not have that shape.
RECURSIVE Literals(_, _)
Literals(s, i) ==
  IF i > Len(s) \/ s[i] # 34 THEN << <<Bad>> >>
  ELSE LET e == ClosingQuote(s, i + 1) IN
       IF e = 0 THEN << <<Bad>> >>
       ELSE IF e = Len(s) THEN << SubSeq(s, i + 1, e - 1) >>
       ELSE IF HasPrefixAt(s, e + 1, ReturnJoin)
       THEN << SubSeq(s, i + 1, e - 1) >> \o Literals(s, e + 1 + Len(ReturnJoin))
       ELSE << <<Bad>> >>

\* The lines an expression evaluates to: one for each literal.
Evaluate(expr) ==
  LET bodies == Literals(expr, 1) IN
  [j \in 1..Len(bodies) |-> IF IsGood(bodies[j])
                            THEN Unescape(bodies[j], 1, TRUE, FALSE) ELSE <<Bad>>]

\* The call has built its script.
HasScript(call) == IsWrite(call) /\ call.scriptCommand.form # "none"

\* The argument of "write text" without its first and last character.
Inside(arg) == SubSeq(arg, 2, Len(arg) - 1)

\* C22: for a text with k >= 1 line breaks the argument of "write text" is
\* an expression of k + 1 quoted literals joined by k line-break
\* concatenations, and it evaluates, the escapes of backslash, double quote
\* and tab undone, to the lines of the text, empty lines included.
C22_MultilineRoundTrip ==
  \A c \in CallIds :
    LET call == calls[c]
        command == call.req.command
        k == LineCount(command) - 1
        lines == Evaluate(Inside(call.scriptCommand.arg))
    IN  (HasScript(call) /\ k >= 1)
          => /\ Len(lines) = k + 1
             /\ \A j \in 1..Len(lines) : IsGood(lines[j])
             /\ lines = Split(command)

\* The text of an empty line and a line with a double quote and a backslash
\* has been sent as "" & return & "\"\\".
C22_Witness ==
  \E c \in CallIds :
    /\ HasScript(calls[c])
    /\ calls[c].req.command = <<NL, 34, 92>>
    /\ Evaluate(Inside(calls[c].scriptCommand.arg)) = << <<>>, <<34, 92>> >>
    /\ calls[c].pc = "w_busy"

\* The text a single-line argument stands for: the shell's quoting undone,
\* then the escapes of the literal.
Decode(encoded) ==
  LET passed == ShellUnquote(encoded, 1, TRUE) IN
  IF IsGood(passed) THEN Unescape(passed, 1, FALSE, TRUE) ELSE <<Bad>>

\* C23: the encoding of a text without line break, decoded (the shell's
\* close-and-reopen of the quote undone, then the backslash escapes and the
\* \uXXXX escapes), is the text, so two texts never have the same encoding.
C23_SingleLineRoundTrip ==
  \A c \in CallIds :
    LET call == calls[c] IN
    (HasScript(call) /\ ~IncludesNewline(call.req.command))
      => Decode(Inside(call.scriptCommand.arg)) = call.req.command

\* A text of a single quote, a backslash and a non-ASCII character has been
\* sent, as '\''\\é.
C23_Witness ==
  \E c \in CallIds :
    /\ HasScript(calls[c])
    /\ calls[c].req.command = <<39, 92, 233>>
    /\ Inside(calls[c].scriptCommand.arg)
         = <<39, 92, 39, 39, 92, 92, 92, 117, 48, 48, 101, 57>>
    /\ calls[c].pc = "done"

\* The text has a character the single-line encoder rewrites.
NeedsEscaping(str) ==
  \E i \in 1..Len(str) : str[i] \in {92, 34, 39} \/ str[i] \notin 32..126

\* C24: encoding the encoding of a text without line break that has a
\* backslash, a quote of either kind or a character outside printable ASCII
\* gives something else than the encoding; a text of other printable ASCII
\* characters is its own encoding.
C24_EncodingTwiceDiffers ==
  \A c \in CallIds :
    LET call == calls[c]
        once == Inside(call.scriptCommand.arg)
        twice == escapeForAppleScript(once)
    IN  (HasScript(call) /\ ~IncludesNewline(call.req.command))
          => /\ NeedsEscaping(call.req.command) => twice # once
             /\ ~NeedsEscaping(call.req.command)
                  => once = call.req.command /\ twice = once

\* The text U+00E9 has been sent as é, whose own encoding is \\u00e9.
C24_Witness ==
  \E c \in CallIds :
    /\ HasScript(calls[c])
    /\ calls[c].req.command = <<233>>
    /\ Inside(calls[c].scriptCommand.arg) = CmdLikeEscape
    /\ escapeForAppleScript(CmdLikeEscape) = <<92>> \o CmdLikeEscape

\* C26: "write text" gets a parenthesised expression, not in quotes, exactly
\* when the text has a line break, and one double-quoted literal exactly when
\* it has none; what was run is what was built.
C26_FormFollowsLineBreak ==
  \A c \in CallIds :
    LET call == calls[c]
        form == call.scriptCommand.form
        arg == call.scriptCommand.arg
    IN  HasScript(call)
          => /\ form = "expression" <=> IncludesNewline(call.req.command)
             /\ form = "quoted" <=> ~IncludesNewline(call.req.command)
             /\ form = "expression"
                  => /\ arg[1] = 40 /\ arg[Len(arg)] = 41
                     /\ \A j \in 1..Len(Literals(Inside(arg), 1)) :
                          IsGood(Literals(Inside(arg), 1)[j])
             /\ form = "quoted"
                  => /\ arg[1] = 34 /\ arg[Len(arg)] = 34
                     /\ IsGood(Decode(Inside(arg)))
             /\ \A i \in 1..Len(call.log) :
                  (call.log[i].op = "send" /\ ActionRan(call.log[i]))
                    => call.log[i].status = form

\* Of the texts "a\nb" and "ls", the first has been sent in parentheses.
C26_Witness ==
  \E c \in CallIds :
    /\ world = "bridge"
    /\ HasScript(calls[c])
    /\ calls[c].req.command = CmdTwoLines
    /\ calls[c].scriptCommand.arg
         = <<40, 34, 97, 34>> \o ReturnJoin \o <<34, 98, 34, 41>>
    /\ HasOp(calls[c], "isProcessing")

\* Position i starts a maximal run of alphabet characters.
StartsRun(s, i) ==
  /\ IsBase64Char(s[i])
  /\ i = 1 \/ ~IsBase64Char(s[i - 1])

\* The last position of the maximal run that position i is in.
RunEnd(s, i) ==
  CHOOSE j \in i..Len(s) :
    /\ \A k \in i..j : IsBase64Char(s[k])
    /\ j = Len(s) \/ ~IsBase64Char(s[j + 1])

\* The positions that start a maximal run of 100 or more characters.
LongRuns(s) ==
  {i \in 1..Len(s) : StartsRun(s, i) /\ RunEnd(s, i) - i + 1 >= Base64MinRun}

\* The padding characters right after position j, two at most.
PaddingAfter(s, j) ==
  IF j + 1 <= Len(s) /\ s[j + 1] = EqualsSign
  THEN (IF j + 2 <= Len(s) /\ s[j + 2] = EqualsSign THEN 2 ELSE 1)
  ELSE 0

\* The text from position i on with each long run and its padding replaced
\* by the placeholder and everything else kept.
RECURSIVE LongRunsReplaced(_, _)
LongRunsReplaced(s, i) ==
  LET later == {j \in LongRuns(s) : j >= i} IN
  IF later = {} THEN SubSeq(s, i, Len(s))
  ELSE LET j == CHOOSE j \in later : \A k \in later : j <= k
           e == RunEnd(s, j)
       IN  SubSeq(s, i, j - 1) \o Base64Placeholder
           \o LongRunsReplaced(s, e + PaddingAfter(s, e) + 1)

\* The text has the beginning of an inline-image sequence somewhere.
HasInlineImage(s) == \E i \in 1..Len(s) : HasPrefixAt(s, i, ImgcatPrefix)

\* A read with the filter on has returned the whole of a buffer that has no
\* inline-image sequence.
FilteredWhole(call) ==
  /\ IsRead(call)
  /\ call.pc = "done"
  /\ call.req.filterBase64
  /\ call.req.linesOfOutput = 0
  /\ LineCount(call.buffer) <= DefaultLinesOfOutput + 1
  /\ ~HasInlineImage(call.buffer)

StillBusy(call) ==
  /\ call.pc = "w_busy"
  /\ call.polls = MaxBusyPolls
  /\ call.log[Len(call.log)].op = "isProcessing"
  /\ call.log[Len(call.log)].val

\* The detector has made every probe the model follows and has not returned.
StillActive(call) == call.pc = "w_probe" /\ Len(call.samples) = MaxProbes

\* C27: where the continuations of the call are run when they are ready, a
\* write_to_terminal call whose bridge calls all succeed returns a count,
\* unless the busy flag stays set, or the process stays active, for as long
\* as the model follows the call.
C27_WriteReturns ==
  \A c \in CallIds :
    (IsWrite(calls[c]) /\ calls[c].pc = "w_before")
      ~> \/ calls[c].pc = "done"
         \/ StillBusy(calls[c])
         \/ StillActive(calls[c])

\* A call has returned a count after a poll that found the session busy and
\* three samples below 1%.
C27_Witness ==
  \E c \in CallIds :
    /\ world = "progress"
    /\ IsWrite(calls[c])
    /\ calls[c].pc = "done"
    /\ calls[c].polls = 2
    /\ calls[c].samples = <<ActiveProcess(5), ActiveProcess(5), ActiveProcess(5)>>

\* Session k of the host the call found has the path, can be inspected, and
\* raises when told the action.
MatchesButRaises(call, k) ==
  /\ call.env.sessions[k].tty = call.ttyPath
  /\ ~call.env.sessions[k].inspectErr
  /\ call.env.sessions[k].actErr

\* C28 (as claimed): a call fails with the not-found error only if no session
\* has the requested path: where a session has it and raises when told the
\* action, the failure is not reported as session not found.
C28_NotFoundMeansNoSuchSession ==
  \A c \in CallIds :
    LET call == calls[c] IN
    (world = "resolver" /\ IsSessionNotFound(call))
      => ~\E k \in 1..Len(call.env.sessions) : MatchesButRaises(call, k)

\* The bridge calls of the call that sent, or tried to send, its text.
SendsOf(call) == {i \in 1..Len(call.log) : call.log[i].op = "send"}

\* C29: a write_to_terminal call sends its text at most once, whatever it
\* polls, probes and reads afterwards and however it ends, and exactly once,
\* successfully, when it returns a count; the other tools send no text.
C29_TextSentAtMostOnce ==
  \A c \in CallIds :
    LET call == calls[c] IN
    /\ Cardinality(SendsOf(call)) <= 1
    /\ ~IsWrite(call) => SendsOf(call) = {}
    /\ (IsWrite(call) /\ call.pc = "done")
         => \E i \in SendsOf(call) :
              /\ ActionRan(call.log[i])
              /\ \A j \in 1..(i - 1) : call.log[j].op = "before"
    /\ \A i \in SendsOf(call) : \A j \in 1..(i - 1) : ~BridgeCallFailed(call.log[j])

\* A call that polled twice and probed twice has returned a count and sent
\* its text once.
C29_Witness ==
  \E c \in CallIds :
    /\ world = "bridge"
    /\ IsWrite(calls[c])
    /\ calls[c].pc = "done"
    /\ calls[c].polls = 2
    /\ Len(calls[c].samples) >= 2
    /\ Cardinality(SendsOf(calls[c])) = 1

\* C30: when the snapshot before the send fails, it is the only thing the call
\* did: the call has failed with the error of the read, no script was built,
\* nothing was sent, polled or probed.
C30_FailedSnapshotSendsNothing ==
  \A c \in CallIds :
    LET call == calls[c]
        log == call.log
    IN  (IsWrite(call) /\ log # <<>> /\ log[1].op = "before" /\ BridgeCallFailed(log[1]))
          => /\ Len(log) = 1
             /\ call.pc = "failed"
             /\ call.error.ctx = <<"Failed to retrieve buffer">>
             /\ call.scriptCommand = NoScript
             /\ call.polls = 0
             /\ call.samples = <<>>
             /\ call.detectorCalls = 0

\* A call whose first snapshot found the host not running has failed.
C30_Witness ==
  \E c \in CallIds :
    /\ IsWrite(calls[c])
    /\ calls[c].pc = "failed"
    /\ Len(calls[c].log) = 1
    /\ calls[c].log[1].op = "before"
    /\ calls[c].log[1].status = "notRunning"

\* ------------------------------------------- targeting, counting, detector
\* What a write_to_terminal call addresses to a session: its bridge calls,
\* the resolution of the device path, the open and the probes of it.
AddressedOps ==
  {"before", "send", "isProcessing", "resolve", "open", "probe", "execRead", "after"}

SessionOf(e) ==
  IF e.op \in {"open", "probe"} \/ (e.op = "resolve" /\ e.status = "local")
  THEN e.target
  ELSE e.hit

\* C32 (as claimed): in a write_to_terminal call that addresses the current
\* session, the session that receives the text, the one whose busy flag is
\* polled, the one whose device path is resolved and probed and the one whose
\* buffer is read are one session, whichever session is focused at each of
\* these steps.
C32_OneSessionThroughout ==
  \A c \in CallIds :
    LET call == calls[c]
        steps == {i \in 1..Len(call.log) :
                    call.log[i].op \in AddressedOps /\ SessionOf(call.log[i]) # NoTty}
    IN  (IsWrite(call) /\ call.req.ttyPath = NoTty)
          => \A i \in steps, j \in steps :
               SessionOf(call.log[i]) = SessionOf(call.log[j])

\* The number of lines a session shows: none when it shows nothing.
ShownLines(contents) == IF contents = <<>> THEN 0 ELSE LineCount(contents)

\* Whether the session showed `after` by having whole lines added to `before`.
OnlyAppended(before, after) ==
  /\ IsPrefixOf(before, after)
  /\ Len(after) > Len(before) => (before = <<>> \/ after[Len(before) + 1] = NL)

\* C33 (as claimed): when what the session shows at the second snapshot is
\* what it showed at the first with n >= 0 lines after it, the call reports
\* n, also when the session showed nothing at the first snapshot and when it
\* shows blank lines at either end.
C33_AppendedLinesAreCounted ==
  \A c \in CallIds :
    LET call == calls[c]
        before == call.log[1].val
        after == call.log[Len(call.log)].val
    IN  (/\ IsWrite(call) /\ call.pc = "done"
         /\ ActionRan(call.log[1]) /\ ActionRan(call.log[Len(call.log)])
         /\ OnlyAppended(before, after))
          => call.outputLines = ShownLines(after) - ShownLines(before)

\* C34 (as claimed): the filter, applied to the second snapshot only, leaves
\* its line count as it is, so the call reports the same count with
\* filterBase64 true as with false.
C34_FilterKeepsLineCount ==
  \A c \in CallIds :
    LET call == calls[c] IN
    (IsWrite(call) /\ call.pc = "done")
      => /\ call.afterCommandBufferLines = LineCount(call.rawAfterCommandBuffer)
         /\ call.outputLines = OutputLines(call.beforeCommandBufferLines,
                                           LineCount(call.rawAfterCommandBuffer))

\* The number of most recent samples in a row that are below the threshold.
TrailingLow(samples) ==
  LET others == {i \in 1..Len(samples) : ~IsLow(samples[i])} IN
  Len(samples) - (IF others = {} THEN 0 ELSE CHOOSE i \in others : \A j \in others : j <= i)

\* The detector returned at a sample below the threshold: Ready by debounce.
ReadyByDebounce(call) ==
  /\ ~Probing(call)
  /\ call.samples # <<>>
  /\ IsLow(call.samples[Len(call.samples)])

\* C35: where the detector sleeps between two probes, the idle time is 350 ms
\* for each of the most recent samples in a row below 1%, and is 0, 350 or
\* 700; it is 1000 or more only once the detector has returned, at the third
\* such sample in a row, so that only two sleeps (700 ms) lie between the
\* first of the three samples and Ready.
C35_IdleTimeWhileSleeping ==
  \A c \in CallIds :
    LET call == calls[c]
        n == Len(call.samples)
    IN  /\ call.pc = "w_probeSleep"
             => /\ call.belowThresholdTime = ProbeInterval * TrailingLow(call.samples)
                /\ call.belowThresholdTime \in {0, ProbeInterval, 2 * ProbeInterval}
                /\ call.slept = ProbeInterval * (n - 1)
        /\ call.belowThresholdTime >= DebounceWindow
             => /\ ReadyByDebounce(call)
                /\ call.belowThresholdTime = 3 * ProbeInterval
        /\ ReadyByDebounce(call)
             => /\ TrailingLow(call.samples) = 3
                /\ call.slept = ProbeInterval * (n - 1)
                /\ call.slept - ProbeInterval * (n - 3) = 2 * ProbeInterval
                /\ 2 * ProbeInterval < DebounceWindow

\* The detector sleeps with 700 ms of idle time after a sample at 5% had set
\* the time back to zero.
C35_Witness ==
  \E c \in CallIds :
    /\ calls[c].pc = "w_probeSleep"
    /\ calls[c].belowThresholdTime = 2 * ProbeInterval
    /\ calls[c].samples =
         <<ActiveProcess(5), ActiveProcess(50), ActiveProcess(5), ActiveProcess(5)>>

\* The steps of the detector in the log of a call.
DetectorOps == {"open", "probe"}

\* C36: the detector neither returns false nor rejects: a call runs it once
\* at most, every way out of it (no process, debounce, a probe that throws, a
\* device path that cannot be opened) leads to the settle delay, the step
\* after its last one is never the detector again or the end of the call, and
\* a call that has settled has run it exactly once.
C36_DetectorReturnsTrueOnce ==
  \A c \in CallIds :
    LET call == calls[c]
        log == call.log
        opens == {i \in 1..Len(log) : log[i].op = "open"}
    IN  /\ call.detectorCalls <= 1
        /\ Cardinality(opens) = call.detectorCalls
        /\ Ready(call) => call.detectorCalls = 1
        /\ \A i \in 1..Len(log) :
             log[i].op \in DetectorOps
               => IF i < Len(log)
                  THEN log[i + 1].op \in {"probe", "settle"}
                  ELSE call.pc \in {"w_probe", "w_probeSleep", "w_settle"}
        /\ call.pc = "w_settle"
             => \/ log[Len(log)].op = "open" /\ log[Len(log)].status = "throws"
                \/ /\ log[Len(log)].op = "probe"
                   /\ \/ log[Len(log)].status \in {"none", "throws"}
                      \/ ReadyByDebounce(call)

\* A call whose device path could not be opened has returned its count after
\* one run of the detector.
C36_Witness ==
  \E c \in CallIds :
    /\ IsWrite(calls[c])
    /\ calls[c].pc = "done"
    /\ calls[c].detectorCalls = 1
    /\ \E i \in 1..Len(calls[c].log) :
         calls[c].log[i].op = "open" /\ calls[c].log[i].status = "throws"

=============================================================================
